---- MODULE Spec2Model ----
(***************************************************************************)
(* Model of the "Yen Cine Agent" backend (server.mjs), its store uploader  *)
(* (vector-helpers.mjs) and the linear memory search of the MCP server     *)
(* (mcp-server.mjs).                                                       *)
(*                                                                         *)
(* Spec        the HTTP request handlers and uploadTextToVectorStore,      *)
(*             one step per stretch of code between two awaits.            *)
(* SpecSearch  naiveVectorStoreSearch over a store whose content is drawn  *)
(*             from a bounded catalogue of lines.                          *)
(* SpecTool    the trakt_request tool of the MCP server.                   *)
(* SpecCodec   buildMovieDocument and JSON.parse of the line it writes.    *)
(* SpecConcurrent  uploadTextToVectorStore calls in flight together.       *)
(* SpecAgent   the tools of the agent (yen-agent.mjs) against the routes   *)
(*             the server registers.                                       *)
(***************************************************************************)
EXTENDS Integers, Sequences, FiniteSets, TLC

VARIABLES
    traktClientId,     \* TRAKT_CLIENT_ID is set (read once at process start)
    traktAccessToken,  \* TRAKT_ACCESS_TOKEN is set
    reqNo,             \* number of requests received so far
    pc,                \* position of the request handler
    req,               \* route and destructured body of the current request
    up,                \* the current uploadTextToVectorStore call
    fs,                \* local filesystem: tmp path -> text written
    unlinkPending,     \* tmp paths whose fs.promises.unlink is in flight
    vendorFiles,       \* vendor file storage: file id -> text
    collection,        \* file ids attached to the vector store
    traktLog,          \* requests whose Trakt call the service has applied
    calls,             \* external calls issued by the current request
    traktResp,         \* how the current request's Trakt fetch settled
    locals,            \* `history` and `result` as the current handler holds them
    resp,              \* the response sent for the current request
    sPc,               \* position of the current naiveVectorStoreSearch call
    sStore,            \* files attached to the store, in listing order
    sArgs,             \* {query, topK, filterTags} of the search
    sFiles,            \* `files`: the listing the search got
    sIdx,              \* index in sFiles of the next file to fetch
    sRequests,         \* requests the search issued to the vendor, in order
    sFetched,          \* per listed file: outcome of its content request
    sResults,          \* `results`
    sKept,             \* <<file, line>> of the line each result was pushed for
    sParsed,           \* <<file, line>> of the lines given to JSON.parse, in order
    sError,            \* what the search threw, if it threw
    tPc,               \* position of the current trakt_request tool call
    tArgs,             \* {method, path, query, body} of the tool call
    tRequest,          \* outbound requests the tool call issued, in order
    tOut,              \* what the tool call returned or threw
    clock,             \* the wall clock `new Date()` reads
    codec,             \* a buildMovieDocument call and the parse of its line
    ups,               \* concurrent uploadTextToVectorStore calls, by call number
    agent              \* a tool call of the agent and the backend request it makes

backendVars == <<traktClientId, traktAccessToken, reqNo, pc, req, up, fs,
                 unlinkPending, vendorFiles, collection, traktLog, calls,
                 traktResp, locals, resp>>
searchVars ==
    <<sPc, sStore, sArgs, sFiles, sIdx, sRequests, sFetched, sResults, sKept, sParsed,
      sError>>
toolVars == <<tPc, tArgs, tRequest, tOut>>
codecVars == <<clock, codec>>
vars == <<backendVars, searchVars, toolVars, codecVars, ups, agent>>

----------------------------------------------------------------------------
(* Bounds of the model *)

\* requests the server handles, one after the other
MaxRequests == 1
\* lines in the generated stores, over all their files
MaxStoreLines == 3
\* content requests of one search that answer a non-success status
MaxSkippedFiles == 1
\* instants the wall clock passes through while a document is built
MaxClock == 2
\* uploadTextToVectorStore calls in flight at the same time
MaxUploads == 2

----------------------------------------------------------------------------
(* JavaScript values.  Every value is a record of the same shape so that   *)
(* any two of them can be compared: k is the type, a the payload.          *)

Undefined == [k |-> "undefined", a |-> <<>>]
Null == [k |-> "null", a |-> <<>>]
Bool(b) == [k |-> "boolean", a |-> <<IF b THEN "true" ELSE "false">>]
Num(n) == [k |-> "number", a |-> <<n>>]
\* A string is the sequence of its characters; a literal the model never looks
\* into ("movie_seen") is kept as one symbol.
Str(chars) == [k |-> "string", a |-> chars]
\* An array of strings, each element one symbol.
Arr(seq) == [k |-> "array", a |-> seq]

\* ToBoolean: what `if (v)`, `!v`, `&&` and `||` test.
Truthy(v) ==
    CASE v.k \in {"undefined", "null"} -> FALSE
      [] v.k = "boolean" -> v.a[1] = "true"
      [] v.k = "number" -> v.a[1] \notin {"0", "NaN"}
      [] v.k = "string" -> v.a # <<>>
      [] OTHER -> TRUE

\* `v ?? d`
Coalesce(v, d) == IF v.k \in {"undefined", "null"} THEN d ELSE v

\* `v || d`
OrElse(v, d) == IF Truthy(v) THEN v ELSE d

\* `{ f = d } = body`: a destructuring default applies to undefined only.
DefaultTo(v, d) == IF v.k = "undefined" THEN d ELSE v

TypeofString(v) == v.k = "string"

----------------------------------------------------------------------------
(* Request bodies the model sends *)

MarkSeenRoute == "/mark-seen"
WatchlistAddRoute == "/trakt/watchlist/add"
WatchlistRemoveRoute == "/trakt/watchlist/remove"
ImportHistoryRoute == "/import-trakt-history"
AgentChatRoute == "/agent/chat"

TitleValues == {Undefined, Str(<<>>), Num("5"), Str(<<"Dune">>)}

\* trakt_id, imdb, slug, tmdb as one request may carry them
IdValues ==
    { [trakt_id |-> Undefined, imdb |-> Undefined, slug |-> Undefined, tmdb |-> Undefined],
      [trakt_id |-> Num("0"), imdb |-> Str(<<>>), slug |-> Null, tmdb |-> Undefined],
      [trakt_id |-> Num("42"), imdb |-> Undefined, slug |-> Undefined, tmdb |-> Undefined],
      [trakt_id |-> Undefined, imdb |-> Str(<<"tt1">>), slug |-> Undefined, tmdb |-> Undefined],
      [trakt_id |-> Undefined, imdb |-> Undefined, slug |-> Str(<<"dune">>), tmdb |-> Num("7")] }

FlagValues == {Undefined, Null, Bool(TRUE), Bool(FALSE)}

NoRequest ==
    [route |-> "none", title |-> Undefined,
     ids |-> [trakt_id |-> Undefined, imdb |-> Undefined, slug |-> Undefined, tmdb |-> Undefined],
     syncTrakt |-> Undefined, writeToVector |-> Undefined,
     limit |-> Undefined, message |-> Undefined]

\* `limit` of /import-trakt-history: any value, coerced by traktFetchHistory
LimitValues == {Undefined, Str(<<"many">>)}

\* `message` of /agent/chat
MessageValues == {Undefined, Str(<<>>), Num("5"), Str(<<"hola">>)}

\* What `resp.json()` of the Trakt history request can give: a value that is
\* not an array, or an array of items, with or without `movie.title`.
TitledItem == [title |-> Str(<<"Dune">>), imdb |-> Str(<<"tt1">>)]
UntitledItem == [title |-> Undefined, imdb |-> Undefined]
NoHistory == [isArray |-> FALSE, items |-> <<>>]
Histories ==
    { NoHistory }
    \cup { [isArray |-> TRUE, items |-> it] :
             it \in {<<>>, <<TitledItem>>, <<UntitledItem>>, <<TitledItem, UntitledItem>>} }

NoLocals == [history |-> NoHistory, result |-> "none"]

----------------------------------------------------------------------------
(* Helpers: vector store *)

\* buildMovieDocument: one record line with every field defaulted.
buildMovieDocument(movie) ==
    [type |-> OrElse(movie.type, Str(<<"movie_seen">>)),
     title |-> movie.title,
     year |-> Coalesce(movie.year, Null),
     trakt_id |-> Coalesce(movie.trakt_id, Null),
     imdb |-> Coalesce(movie.imdb, Null),
     slug |-> Coalesce(movie.slug, Null),
     tmdb |-> Coalesce(movie.tmdb, Null),
     rating |-> Coalesce(movie.rating, Null),
     liked |-> Coalesce(movie.liked, Null),
     state |-> Coalesce(movie.state, Str(<<"seen">>)),
     source |-> Coalesce(movie.source, Str(<<"manual">>)),
     marked_at |-> Str(<<"now">>),
     tags |-> Coalesce(movie.tags, Arr(<<>>)),
     comment |-> Coalesce(movie.comment, Null)]

NoError == [kind |-> "none", status |-> 0, body |-> ""]
NoAttachResp == [net |-> FALSE, ok |-> FALSE, status |-> 0, body |-> "", attached |-> FALSE]

NoUpload ==
    [pc |-> "idle", tmpPath |-> 0, text |-> <<>>, fileId |-> 0,
     attachResp |-> NoAttachResp, outcome |-> "none", error |-> NoError]

NoCalls == [writeFile |-> 0, filesCreate |-> 0, attach |-> 0, unlink |-> 0, trakt |-> 0]

\* What the attach endpoint can answer: a network failure (the request may or
\* may not have reached the vendor), a success status with or without a JSON
\* body, or a non-success status with some body.
AttachFailStatuses == {404, 500}
AttachResponses ==
    { [net |-> TRUE, ok |-> FALSE, status |-> 0, body |-> "", attached |-> a] : a \in BOOLEAN }
    \cup { [net |-> FALSE, ok |-> TRUE, status |-> 200, body |-> b, attached |-> TRUE] :
             b \in {"json", "not json"} }
    \cup { [net |-> FALSE, ok |-> FALSE, status |-> s, body |-> b, attached |-> FALSE] :
             s \in AttachFailStatuses, b \in {"quota", "no such store"} }

\* uploadTextToVectorStore, first stretch: name the temp file and issue writeFile.
UploadBegin(text, path) ==
    [NoUpload EXCEPT !.pc = "writeFile", !.tmpPath = path, !.text = text]

\* UploadAfterAttach with the `if (!resp.ok)` check left out.
UploadAfterAttachUnchecked(r, fileId) ==
    IF r.net THEN [outcome |-> "thrown", error |-> [kind |-> "attachNetwork", status |-> 0, body |-> ""]]
    ELSE IF r.body # "json" /\ r.ok
      THEN [outcome |-> "thrown", error |-> [kind |-> "attachJson", status |-> 0, body |-> ""]]
    ELSE [outcome |-> "returned", error |-> NoError]

\* uploadTextToVectorStore after `await fetch(...)` of the attach call:
\* what the call settles with.
UploadAfterAttach(r, fileId) ==
    IF r.net THEN [outcome |-> "thrown", error |-> [kind |-> "attachNetwork", status |-> 0, body |-> ""]]
    ELSE IF ~r.ok
      THEN [outcome |-> "thrown", error |-> [kind |-> "attachStatus", status |-> r.status, body |-> r.body]]
    ELSE IF r.body # "json"
      THEN [outcome |-> "thrown", error |-> [kind |-> "attachJson", status |-> 0, body |-> ""]]
    ELSE [outcome |-> "returned", error |-> NoError]

\* `finally { fs.promises.unlink(tmpPath).catch(() => {}) }`: the unlink is
\* issued and not awaited.
FinallyUnlink(pending, path) == pending \cup {path}

----------------------------------------------------------------------------
(* Helpers: Trakt *)

TraktConfigured == traktClientId /\ traktAccessToken

\* `trakt_id || imdb || slug || tmdb`
HasAnyId(ids) ==
    Truthy(ids.trakt_id) \/ Truthy(ids.imdb) \/ Truthy(ids.slug) \/ Truthy(ids.tmdb)

\* What the Trakt endpoint can answer.
TraktOutcomes == {"ok", "okNotJson", "status", "network"}
TraktApplied(o) == o \in {"ok", "okNotJson"}
\* traktAddToHistory / traktModifyWatchlist after the fetch: throws unless
\* the status is a success and the body parses.
TraktCallThrows(o) == o # "ok"

----------------------------------------------------------------------------
(* Responses *)

NoResponse ==
    [status |-> 0, ok |-> FALSE, error |-> "", details |-> NoError,
     trakt |-> "null", vectorStoreFileId |-> 0, sent |-> 0, imported |-> 0]

\* `res.status(400).json({error})`
Respond400(msg) == [NoResponse EXCEPT !.status = 400, !.error = msg, !.sent = 1]

\* Respond500 with the status of a validation error.
Respond500AsBadRequest(err) ==
    [NoResponse EXCEPT !.status = 400, !.error = "internal_error", !.details = err,
                       !.sent = 1]

\* the catch block: `res.status(500).json({error: "internal_error", details})`
Respond500(err) ==
    [NoResponse EXCEPT !.status = 500, !.error = "internal_error", !.details = err,
                       !.sent = 1]
\* `res.json({ok: true, ...})`
RespondOk(fileId, trakt) ==
    [NoResponse EXCEPT !.status = 200, !.ok = TRUE, !.vectorStoreFileId = fileId,
                       !.trakt = trakt, !.sent = 1]
\* /import-trakt-history: `res.json({ok: true, imported, vectorStoreFileId})`
RespondImported(n, fileId) ==
    [NoResponse EXCEPT !.status = 200, !.ok = TRUE, !.imported = n,
                       !.vectorStoreFileId = fileId, !.sent = 1]

TraktNotConfiguredError == [kind |-> "traktNotConfigured", status |-> 0, body |-> ""]
TraktNoIdsError == [kind |-> "traktNoIds", status |-> 0, body |-> ""]
TraktCallError(o) == [kind |-> "trakt", status |-> 0, body |-> o]

----------------------------------------------------------------------------
(* Routes: decisions taken by the handlers *)

\* TitleInvalid without the typeof test.
TitleInvalidTruthyOnly(title) == ~Truthy(title)

\* `!title || typeof title !== "string"`
TitleInvalid(title) == ~Truthy(title) \/ ~TypeofString(title)

\* UploadThrew with the rejection of the upload ignored.
UploadNeverThrew(u) == FALSE

\* `await uploadTextToVectorStore(doc)` in a handler: a rejected call throws
\* at the await, and the rest of the try block is not run.
UploadThrew(u) == u.outcome = "thrown"

\* mark-seen: `syncTrakt && (trakt_id || imdb || slug || tmdb) &&
\* TRAKT_CLIENT_ID && TRAKT_ACCESS_TOKEN`
MarkSeenShouldSync(r) ==
    Truthy(r.syncTrakt) /\ HasAnyId(r.ids) /\ traktClientId /\ traktAccessToken

\* MarkSeenAfterTrakt without the try/catch around traktAddToHistory: the
\* error reaches the handler's outer catch.
MarkSeenAfterTraktNoCatch(o, fileId) ==
    IF TraktCallThrows(o) THEN Respond500(TraktCallError(o))
    ELSE RespondOk(fileId, "data")

\* mark-seen after `await traktAddToHistory(...)`: an error of the call is
\* caught and becomes traktResult = {error}; the response is ok:true.
MarkSeenAfterTrakt(o, fileId) ==
    IF TraktCallThrows(o) THEN RespondOk(fileId, "error")
    ELSE RespondOk(fileId, "data")

\* watchlist add/remove after `await traktModifyWatchlist(...)`: an error of
\* the call reaches the handler's catch.
WatchlistAfterTrakt(o, fileId) ==
    IF TraktCallThrows(o) THEN Respond500(TraktCallError(o))
    ELSE RespondOk(fileId, "data")

\* WatchlistIdsMissing with the title accepted as if it were an identifier.
WatchlistIdsMissingUnlessTitle(r) == ~(HasAnyId(r.ids) \/ Truthy(r.title))

\* watchlist add/remove: `!(trakt_id || imdb || slug || tmdb)`
WatchlistIdsMissing(r) == ~HasAnyId(r.ids)

\* watchlist add/remove: `writeToVector && title`
WatchlistShouldWrite(r) == Truthy(r.writeToVector) /\ Truthy(r.title)

\* ensureTraktConfigured: throws unless both credentials are set.
ensureTraktConfiguredThrows == ~traktClientId \/ ~traktAccessToken

MarkSeenDocument(r) ==
    buildMovieDocument(
        [type |-> Str(<<"movie_seen">>), title |-> r.title, year |-> Undefined,
         trakt_id |-> r.ids.trakt_id, imdb |-> r.ids.imdb, slug |-> r.ids.slug,
         tmdb |-> r.ids.tmdb, rating |-> Undefined, liked |-> Undefined,
         state |-> Str(<<"seen">>),
         source |-> IF Truthy(r.syncTrakt) THEN Str(<<"mark_seen_trakt+vector">>)
                    ELSE Str(<<"mark_seen_vector_only">>),
         tags |-> Undefined, comment |-> Undefined])

WatchlistDocument(r) ==
    LET add == r.route = WatchlistAddRoute IN
    buildMovieDocument(
        [type |-> IF add THEN Str(<<"movie_watchlist">>) ELSE Str(<<"movie_watchlist_removed">>),
         title |-> r.title, year |-> Undefined,
         trakt_id |-> r.ids.trakt_id, imdb |-> r.ids.imdb, slug |-> r.ids.slug,
         tmdb |-> r.ids.tmdb, rating |-> Undefined, liked |-> Undefined,
         state |-> IF add THEN Str(<<"in_watchlist">>) ELSE Str(<<"removed_from_watchlist">>),
         source |-> IF add THEN Str(<<"trakt_watchlist_add">>) ELSE Str(<<"trakt_watchlist_remove">>),
         tags |-> Coalesce(Undefined,
                           Arr(<<IF add THEN "watchlist" ELSE "watchlist_removed">>)),
         comment |-> Undefined])

----------------------------------------------------------------------------
(* Initial state: the process has started, no request yet *)

EmptyStore == [p \in {} |-> <<>>]

InitSearchIdle ==
    /\ sPc = "idle"
    /\ sArgs = [query |-> <<>>, topK |-> 0, filterTags |-> Null]
    /\ sFiles = <<>>
    /\ sIdx = 0
    /\ sRequests = <<>>
    /\ sFetched = <<>>
    /\ sResults = <<>>
    /\ sKept = <<>>
    /\ sParsed = <<>>
    /\ sError = "none"

InitBackendIdle ==
    /\ reqNo = 0
    /\ pc = "idle"
    /\ req = NoRequest
    /\ up = NoUpload
    /\ fs = EmptyStore
    /\ unlinkPending = {}
    /\ vendorFiles = EmptyStore
    /\ collection = {}
    /\ traktLog = {}
    /\ calls = NoCalls
    /\ traktResp = "none"
    /\ locals = NoLocals
    /\ resp = NoResponse

NoToolArgs == [method |-> "GET", path |-> <<>>, query |-> <<>>, body |-> Undefined]
NoToolOut == [kind |-> "none", error |-> "", status |-> 0, ok |-> FALSE, data |-> ""]

NoFact ==
    [type |-> Undefined, title |-> Undefined, year |-> Undefined, trakt_id |-> Undefined,
     imdb |-> Undefined, slug |-> Undefined, tmdb |-> Undefined, rating |-> Undefined,
     liked |-> Undefined, state |-> Undefined, source |-> Undefined,
     marked_at |-> Undefined, tags |-> Undefined, comment |-> Undefined,
     extra |-> Undefined]

InitCodecIdle ==
    /\ clock = 0
    /\ codec = [pc |-> "idle", fact |-> NoFact, start |-> 0, now |-> 0, end |-> 0,
                line |-> <<>>, doc |-> NoFact]

NoTmpPath == <<"", 0, "-", "", "">>
NoConcurrentUpload ==
    [pc |-> "idle", tmpPath |-> NoTmpPath, text |-> <<>>, fileId |-> 0,
     outcome |-> "none", unlink |-> "none"]

InitUploadsIdle == ups = [i \in 1..MaxUploads |-> NoConcurrentUpload]

NoBackendRequest == [method |-> "", path |-> "", body |-> <<>>]
NoAgent ==
    [pc |-> "idle", tool |-> "", request |-> NoBackendRequest, routed |-> "none",
     status |-> 0, ok |-> FALSE]

InitAgentIdle == agent = NoAgent

InitToolIdle ==
    /\ tPc = "idle"
    /\ tArgs = NoToolArgs
    /\ tRequest = <<>>
    /\ tOut = NoToolOut

Init ==
    /\ traktClientId \in BOOLEAN
    /\ traktAccessToken \in BOOLEAN
    /\ InitBackendIdle
    /\ sStore = <<>>
    /\ InitSearchIdle
    /\ InitToolIdle
    /\ InitCodecIdle
    /\ InitUploadsIdle
    /\ InitAgentIdle

----------------------------------------------------------------------------
(* Steps of the handlers and of uploadTextToVectorStore *)

WorldUnchanged == UNCHANGED <<fs, unlinkPending, vendorFiles, collection, traktLog>>
EnvUnchanged ==
    UNCHANGED <<traktClientId, traktAccessToken, searchVars, toolVars, codecVars, ups,
                agent>>

CanReceive == pc \in {"idle", "done"} /\ reqNo < MaxRequests

\* The handler calls uploadTextToVectorStore(<<doc>>): the call names its temp
\* file and issues writeFile, and the handler awaits the call.
CallUpload(text) ==
    /\ pc' = "upload"
    /\ up' = UploadBegin(text, reqNo')
    /\ calls' = [NoCalls EXCEPT !.writeFile = 1]
    /\ traktResp' = "none"
    /\ locals' = NoLocals
    /\ resp' = NoResponse

\* The handler answers without awaiting anything.
AnswerAtOnce(r) ==
    /\ pc' = "done"
    /\ up' = NoUpload
    /\ calls' = NoCalls
    /\ traktResp' = "none"
    /\ locals' = NoLocals
    /\ resp' = r

\* The handler calls traktAddToHistory / traktModifyWatchlist, which throws
\* before its fetch when Trakt is not configured or no id is usable.
CallTrakt(ids, callsNow) ==
    /\ traktResp' = "none"
    /\ locals' = NoLocals
    /\ IF ensureTraktConfiguredThrows
         THEN /\ pc' = "done" /\ calls' = callsNow
              /\ resp' = Respond500(TraktNotConfiguredError)
       ELSE IF ~HasAnyId(ids)
         THEN /\ pc' = "done" /\ calls' = callsNow
              /\ resp' = Respond500(TraktNoIdsError)
       ELSE /\ pc' = "trakt"
            /\ calls' = [callsNow EXCEPT !.trakt = @ + 1]
            /\ resp' = NoResponse

\* POST /mark-seen up to its first await.
MarkSeen ==
    /\ CanReceive
    /\ \E title \in TitleValues, ids \in IdValues, sync \in FlagValues :
         LET r == [NoRequest EXCEPT !.route = MarkSeenRoute, !.title = title,
                                    !.ids = ids,
                                    !.syncTrakt = DefaultTo(sync, Bool(TRUE))]
         IN /\ req' = r
            /\ reqNo' = reqNo + 1
            /\ IF TitleInvalid(title)
                 THEN AnswerAtOnce(Respond400("title is required (string)"))
                 ELSE CallUpload(<<MarkSeenDocument(r)>>)
    /\ WorldUnchanged /\ EnvUnchanged

\* POST /trakt/watchlist/add and /remove up to their first await.
WatchlistModify ==
    /\ CanReceive
    /\ \E route \in {WatchlistAddRoute, WatchlistRemoveRoute},
          title \in TitleValues, ids \in IdValues, wtv \in FlagValues :
         LET r == [NoRequest EXCEPT !.route = route, !.title = title, !.ids = ids,
                                    !.writeToVector = DefaultTo(wtv, Bool(TRUE))]
         IN /\ req' = r
            /\ reqNo' = reqNo + 1
            /\ IF WatchlistIdsMissing(r)
                 THEN AnswerAtOnce(
                        Respond400("Need at least one id: trakt_id, imdb, slug or tmdb"))
               ELSE IF WatchlistShouldWrite(r)
                 THEN CallUpload(<<WatchlistDocument(r)>>)
               ELSE /\ up' = NoUpload
                    /\ CallTrakt(ids, NoCalls)
    /\ WorldUnchanged /\ EnvUnchanged

\* `await fs.promises.writeFile(tmpPath, text)` settles.  It stands before the
\* try block: when it rejects, the call throws and no unlink is issued; the
\* failed write may have left a truncated file behind.
WriteFileDone ==
    /\ pc = "upload" /\ up.pc = "writeFile"
    /\ \E outcome \in {"ok", "failed", "failedPartial"} :
         /\ fs' = IF outcome = "failed" THEN fs
                  ELSE [p \in DOMAIN fs \cup {up.tmpPath} |->
                          IF p = up.tmpPath
                            THEN (IF outcome = "ok" THEN up.text ELSE <<>>)
                            ELSE fs[p]]
         /\ IF outcome = "ok"
              THEN /\ up' = [up EXCEPT !.pc = "filesCreate"]
                   /\ calls' = [calls EXCEPT !.filesCreate = @ + 1]
              ELSE /\ up' = [up EXCEPT !.pc = "settled", !.outcome = "thrown",
                                       !.error = [kind |-> "writeFile", status |-> 0,
                                                  body |-> ""]]
                   /\ calls' = calls
    /\ UNCHANGED <<reqNo, pc, req, unlinkPending, vendorFiles, collection, traktLog,
                   traktResp, locals, resp>>
    /\ EnvUnchanged

\* `await openai.files.create(...)` settles: the vendor stored what the stream
\* read from the temp file, or the call failed (catch, rethrow, finally).
FilesCreateDone ==
    /\ pc = "upload" /\ up.pc = "filesCreate"
    /\ \E ok \in BOOLEAN :
         IF ok
           THEN /\ vendorFiles' = [f \in DOMAIN vendorFiles \cup {reqNo} |->
                                     IF f = reqNo THEN fs[up.tmpPath] ELSE vendorFiles[f]]
                /\ up' = [up EXCEPT !.pc = "attach", !.fileId = reqNo]
                /\ calls' = [calls EXCEPT !.attach = @ + 1]
                /\ UNCHANGED unlinkPending
           ELSE /\ up' = [up EXCEPT !.pc = "settled", !.outcome = "thrown",
                                    !.error = [kind |-> "filesCreate", status |-> 0,
                                               body |-> ""]]
                /\ unlinkPending' = FinallyUnlink(unlinkPending, up.tmpPath)
                /\ calls' = [calls EXCEPT !.unlink = @ + 1]
                /\ UNCHANGED vendorFiles
    /\ UNCHANGED <<reqNo, pc, req, fs, collection, traktLog, traktResp, locals, resp>>
    /\ EnvUnchanged

\* `await fetch(.../vector_stores/ID/files)` settles; the rest of the try
\* block, the catch and the finally run.
AttachDone ==
    /\ pc = "upload" /\ up.pc = "attach"
    /\ \E r \in AttachResponses :
         LET end == UploadAfterAttach(r, up.fileId) IN
         /\ collection' = IF r.attached THEN collection \cup {up.fileId} ELSE collection
         /\ up' = [up EXCEPT !.pc = "settled", !.attachResp = r,
                             !.outcome = end.outcome, !.error = end.error]
         /\ unlinkPending' = FinallyUnlink(unlinkPending, up.tmpPath)
         /\ calls' = [calls EXCEPT !.unlink = @ + 1]
    /\ UNCHANGED <<reqNo, pc, req, fs, vendorFiles, traktLog, traktResp, locals, resp>>
    /\ EnvUnchanged

\* An unlink issued by some finally block completes; its failure is swallowed
\* by `.catch(() => {})`.
UnlinkDone ==
    /\ \E p \in unlinkPending, ok \in BOOLEAN :
         /\ unlinkPending' = unlinkPending \ {p}
         /\ fs' = IF ok THEN [q \in DOMAIN fs \ {p} |-> fs[q]] ELSE fs
    /\ UNCHANGED <<reqNo, pc, req, up, vendorFiles, collection, traktLog, calls,
                   traktResp, locals, resp>>
    /\ EnvUnchanged

\* mark-seen resumes after `await uploadTextToVectorStore(doc)`.
MarkSeenAfterUpload ==
    /\ pc = "upload" /\ up.pc = "settled" /\ req.route = MarkSeenRoute
    /\ up' = [up EXCEPT !.pc = "delivered"]
    /\ IF UploadThrew(up)
         THEN /\ pc' = "done" /\ resp' = Respond500(up.error)
              /\ UNCHANGED <<calls, traktResp, locals>>
       ELSE IF MarkSeenShouldSync(req)
         THEN CallTrakt(req.ids, calls)
       ELSE /\ pc' = "done" /\ resp' = RespondOk(up.fileId, "null")
            /\ UNCHANGED <<calls, traktResp, locals>>
    /\ UNCHANGED <<reqNo, req>>
    /\ WorldUnchanged /\ EnvUnchanged

\* watchlist add/remove resumes after `await uploadTextToVectorStore(doc)`.
WatchlistAfterUpload ==
    /\ pc = "upload" /\ up.pc = "settled"
    /\ req.route \in {WatchlistAddRoute, WatchlistRemoveRoute}
    /\ up' = [up EXCEPT !.pc = "delivered"]
    /\ IF UploadThrew(up)
         THEN /\ pc' = "done" /\ resp' = Respond500(up.error)
              /\ UNCHANGED <<calls, traktResp, locals>>
         ELSE CallTrakt(req.ids, calls)
    /\ UNCHANGED <<reqNo, req>>
    /\ WorldUnchanged /\ EnvUnchanged

\* mark-seen: the fetch of traktAddToHistory settles.
TraktHistoryDone ==
    /\ pc = "trakt" /\ req.route = MarkSeenRoute
    /\ \E o \in TraktOutcomes :
         /\ traktLog' = IF TraktApplied(o) THEN traktLog \cup {reqNo} ELSE traktLog
         /\ traktResp' = o
         /\ resp' = MarkSeenAfterTrakt(o, up.fileId)
    /\ pc' = "done"
    /\ UNCHANGED <<reqNo, req, up, fs, unlinkPending, vendorFiles, collection, calls,
                   locals>>
    /\ EnvUnchanged

\* watchlist add/remove: the fetch of traktModifyWatchlist settles.
TraktWatchlistDone ==
    /\ pc = "trakt" /\ req.route \in {WatchlistAddRoute, WatchlistRemoveRoute}
    /\ \E o \in TraktOutcomes :
         /\ traktLog' = IF TraktApplied(o) THEN traktLog \cup {reqNo} ELSE traktLog
         /\ traktResp' = o
         /\ resp' = WatchlistAfterTrakt(o, up.fileId)
    /\ pc' = "done"
    /\ UNCHANGED <<reqNo, req, up, fs, unlinkPending, vendorFiles, collection, calls,
                   locals>>
    /\ EnvUnchanged

\* the lines /import-trakt-history builds: one document for every item with
\* a truthy `movie.title`, joined
HistoryLines(history) ==
    LET titled == SelectSeq(history.items, LAMBDA item : Truthy(item.title))
    IN [i \in 1..Len(titled) |->
          buildMovieDocument(
            [type |-> Str(<<"movie_seen">>), title |-> titled[i].title,
             year |-> Undefined, trakt_id |-> Null, imdb |-> Coalesce(titled[i].imdb, Null),
             slug |-> Null, tmdb |-> Null, rating |-> Null, liked |-> Null,
             state |-> Str(<<"seen">>), source |-> Str(<<"trakt_history">>),
             tags |-> Arr(<<"trakt_history">>), comment |-> Null])]

\* POST /import-trakt-history up to its first await: traktFetchHistory throws
\* before its fetch when Trakt is not configured.
ImportHistory ==
    /\ CanReceive
    /\ \E limit \in LimitValues :
         /\ req' = [NoRequest EXCEPT !.route = ImportHistoryRoute, !.limit = limit]
         /\ reqNo' = reqNo + 1
         /\ IF ensureTraktConfiguredThrows
              THEN AnswerAtOnce(Respond500(TraktNotConfiguredError))
              ELSE /\ pc' = "history"
                   /\ up' = NoUpload
                   /\ calls' = [NoCalls EXCEPT !.trakt = 1]
                   /\ traktResp' = "none"
                   /\ locals' = NoLocals
                   /\ resp' = NoResponse
    /\ WorldUnchanged /\ EnvUnchanged

\* The fetch of traktFetchHistory settles, and `resp.json()` with it: an
\* error reaches the handler's catch; no history answers at once; else the
\* lines are built and uploadTextToVectorStore is called.
ImportAfterHistory ==
    /\ pc = "history"
    /\ \E o \in TraktOutcomes, h \in Histories :
         /\ traktResp' = o
         /\ IF TraktCallThrows(o)
              THEN /\ h = NoHistory
                   /\ pc' = "done" /\ resp' = Respond500(TraktCallError(o))
                   /\ UNCHANGED <<up, calls, locals>>
            ELSE IF ~h.isArray \/ Len(h.items) = 0
              THEN /\ pc' = "done" /\ resp' = RespondImported(0, 0)
                   /\ locals' = [locals EXCEPT !.history = h]
                   /\ UNCHANGED <<up, calls>>
            ELSE /\ pc' = "upload"
                 /\ up' = UploadBegin(HistoryLines(h), reqNo)
                 /\ calls' = [calls EXCEPT !.writeFile = @ + 1]
                 /\ locals' = [locals EXCEPT !.history = h]
                 /\ resp' = NoResponse
    /\ UNCHANGED <<reqNo, req>>
    /\ WorldUnchanged /\ EnvUnchanged

\* /import-trakt-history resumes after `await uploadTextToVectorStore(lines)`.
ImportAfterUpload ==
    /\ pc = "upload" /\ up.pc = "settled" /\ req.route = ImportHistoryRoute
    /\ up' = [up EXCEPT !.pc = "delivered"]
    /\ pc' = "done"
    /\ resp' = IF UploadThrew(up) THEN Respond500(up.error)
               ELSE RespondImported(Len(locals.history.items), up.fileId)
    /\ UNCHANGED <<reqNo, req, calls, traktResp, locals>>
    /\ WorldUnchanged /\ EnvUnchanged

\* `!message || typeof message !== "string"`
MessageInvalid(message) == ~Truthy(message) \/ ~TypeofString(message)

\* /agent/chat: `res.status(400).json({ok: false, error})`
RespondAgent400 ==
    [NoResponse EXCEPT !.status = 400, !.error = "message is required (string)",
                       !.sent = 1]
\* /agent/chat: the catch block
RespondAgent500 ==
    [NoResponse EXCEPT !.status = 500, !.error = "agent_internal_error", !.sent = 1]

\* POST /agent/chat up to its await of runYenMoviesAgent.
AgentChat ==
    /\ CanReceive
    /\ \E message \in MessageValues :
         /\ req' = [NoRequest EXCEPT !.route = AgentChatRoute, !.message = message]
         /\ reqNo' = reqNo + 1
         /\ IF MessageInvalid(message)
              THEN AnswerAtOnce(RespondAgent400)
              ELSE /\ pc' = "agent"
                   /\ up' = NoUpload
                   /\ calls' = NoCalls
                   /\ traktResp' = "none"
                   /\ locals' = NoLocals
                   /\ resp' = NoResponse
    /\ WorldUnchanged /\ EnvUnchanged

\* `await runYenMoviesAgent(...)` settles: a result, or an error.
AgentChatDone ==
    /\ pc = "agent"
    /\ \E outcome \in {"reply", "thrown"} :
         /\ locals' = [locals EXCEPT !.result = outcome]
         /\ resp' = IF outcome = "thrown" THEN RespondAgent500 ELSE RespondOk(0, "null")
    /\ pc' = "done"
    /\ UNCHANGED <<reqNo, req, up, calls, traktResp>>
    /\ WorldUnchanged /\ EnvUnchanged

Next ==
    \/ MarkSeen
    \/ WatchlistModify
    \/ ImportHistory
    \/ AgentChat
    \/ ImportAfterHistory
    \/ ImportAfterUpload
    \/ AgentChatDone
    \/ WriteFileDone
    \/ FilesCreateDone
    \/ AttachDone
    \/ UnlinkDone
    \/ MarkSeenAfterUpload
    \/ WatchlistAfterUpload
    \/ TraktHistoryDone
    \/ TraktWatchlistDone

Spec == Init /\ [][Next]_vars

----------------------------------------------------------------------------
(* Linear memory search: strings *)

UpperLetters == <<"A", "B", "C", "D", "E", "F", "G", "H", "I", "J", "K", "L", "M",
                  "N", "O", "P", "Q", "R", "S", "T", "U", "V", "W", "X", "Y", "Z">>
LowerLetters == <<"a", "b", "c", "d", "e", "f", "g", "h", "i", "j", "k", "l", "m",
                  "n", "o", "p", "q", "r", "s", "t", "u", "v", "w", "x", "y", "z">>

LowerChar(c) ==
    IF \E i \in 1..26 : UpperLetters[i] = c
      THEN LowerLetters[CHOOSE i \in 1..26 : UpperLetters[i] = c]
      ELSE c

\* String.prototype.toLowerCase
toLowerCase(str) == [i \in 1..Len(str) |-> LowerChar(str[i])]

\* String.prototype.includes: some offset of hay where needle starts
includes(hay, needle) ==
    \E i \in 0..(Len(hay) - Len(needle)) : SubSeq(hay, i + 1, i + Len(needle)) = needle

RECURSIVE JoinQuoted(_, _)
\* the elements of arr from index i on, each in double quotes, comma-separated
JoinQuoted(arr, i) ==
    IF i > Len(arr) THEN <<>>
    ELSE (IF i > 1 THEN <<",">> ELSE <<>>) \o <<"\"", arr[i], "\"">> \o JoinQuoted(arr, i + 1)

\* JSON.stringify of an array of strings
StringifyTags(arr) == <<"[">> \o JoinQuoted(arr, 1) \o <<"]">>

RECURSIVE JoinComma(_, _)
JoinComma(arr, i) ==
    IF i > Len(arr) THEN <<>>
    ELSE (IF i > 1 THEN <<",">> ELSE <<>>) \o <<arr[i]>> \o JoinComma(arr, i + 1)

\* `(v || "")` as an operand of string `+`: a truthy value is converted to a
\* string, a falsy one gives "".
OrEmpty(v) ==
    IF ~Truthy(v) THEN <<>>
    ELSE IF v.k = "array" THEN JoinComma(v.a, 1)
    ELSE IF v.k = "boolean" THEN <<"t", "r", "u", "e">>
    ELSE v.a

----------------------------------------------------------------------------
(* Linear memory search: store content *)

\* How many files the listing request asks for (`?limit=20`).
ListPageSize == 20
\* `topK || 10`
DefaultTopK == 10

EmptyDoc ==
    [text |-> Undefined, title |-> Undefined, comment |-> Undefined, tags |-> Undefined,
     kind |-> Undefined, type |-> Undefined, created_at |-> Undefined,
     marked_at |-> Undefined]

\* A line of a stored file: blank, not JSON, the JSON literal null, another
\* JSON value that is not an object (its properties are all undefined), or an
\* object.  src is the line as JSON.stringify writes it, kept as one symbol.
BlankLine == [form |-> "blank", src |-> "  ", doc |-> EmptyDoc]
GarbageLine == [form |-> "garbage", src |-> "not json", doc |-> EmptyDoc]
NullLine == [form |-> "null", src |-> "null", doc |-> EmptyDoc]
ScalarLine == [form |-> "scalar", src |-> "5", doc |-> EmptyDoc]
ObjectLine(src, doc) == [form |-> "object", src |-> src, doc |-> doc]

\* {"title":"Ab","tags":["a"],"type":"m","marked_at":"t1"}
LineAb ==
    ObjectLine("Ab", [EmptyDoc EXCEPT !.title = Str(<<"A", "b">>), !.tags = Arr(<<"a">>),
                                      !.type = Str(<<"m">>), !.marked_at = Str(<<"t1">>)])
\* {"kind":"n","text":"ba","tags":["a","b"],"created_at":"t2"}
LineBa ==
    ObjectLine("ba", [EmptyDoc EXCEPT !.kind = Str(<<"n">>), !.text = Str(<<"b", "a">>),
                                      !.tags = Arr(<<"a", "b">>),
                                      !.created_at = Str(<<"t2">>)])

\* Lines the generated stores are made of
BasicLines == {LineAb, LineBa, GarbageLine}

\* Lines that appear in hand-written stores
RichLines ==
    { BlankLine, NullLine, ScalarLine,
      \* {"title":"Ab"}
      ObjectLine("{title:Ab}", [EmptyDoc EXCEPT !.title = Str(<<"A", "b">>)]),
      \* {"title":"Ab","tags":"a"}: tags is not an array
      ObjectLine("{title:Ab,tags:a}",
                 [EmptyDoc EXCEPT !.title = Str(<<"A", "b">>), !.tags = Str(<<"a">>)]),
      \* {"text":"b","tags":["a","b","c"]}
      ObjectLine("{text:b,tags:[a,b,c]}",
                 [EmptyDoc EXCEPT !.text = Str(<<"b">>), !.tags = Arr(<<"a", "b", "c">>)]),
      \* {"text":"a","title":"b"}
      ObjectLine("{text:a,title:b}",
                 [EmptyDoc EXCEPT !.text = Str(<<"a">>), !.title = Str(<<"b">>)]),
      \* {"comment":"Ba","kind":"n","type":"m","tags":["b"]}
      ObjectLine("{comment:Ba,kind:n,type:m,tags:[b]}",
                 [EmptyDoc EXCEPT !.comment = Str(<<"B", "a">>), !.kind = Str(<<"n">>),
                                  !.type = Str(<<"m">>), !.tags = Arr(<<"b">>)]),
      \* {"tags":["b"],"title":5}
      ObjectLine("{tags:[b],title:5}",
                 [EmptyDoc EXCEPT !.title = Num("5"), !.tags = Arr(<<"b">>)]) }

SeqsUpTo(S, n) == UNION { [1..k -> S] : k \in 0..n }

RECURSIVE SplitAt(_, _, _)
\* lines cut into files after the positions in cuts, from position start on
SplitAt(lines, cuts, start) ==
    IF start > Len(lines) THEN <<>>
    ELSE LET stop == CHOOSE i \in start..Len(lines) :
                        /\ i \in cuts \cup {Len(lines)}
                        /\ \A j \in start..(i - 1) : j \notin cuts
         IN <<SubSeq(lines, start, stop)>> \o SplitAt(lines, cuts, stop + 1)


\* Stores of at most MaxStoreLines basic lines, cut into files in every way
GeneratedStores ==
    { SplitAt(ls, cuts, 1) : ls \in SeqsUpTo(BasicLines, MaxStoreLines),
                             cuts \in SUBSET (1..(MaxStoreLines - 1)) }

\* One file more than a page of the listing: a page of files holding a note,
\* then a file holding a movie
PageAndOneStore ==
    [i \in 1..(ListPageSize + 1) |-> IF i <= ListPageSize THEN <<LineBa>> ELSE <<LineAb>>]

\* Hand-written stores: every rich line alone, empty files, and the JSON
\* literal null among other lines
HandStores ==
    { << <<l>> >> : l \in RichLines }
    \cup { << <<>> >>,
           << <<>>, <<LineAb>> >>,
           << <<BlankLine, LineAb, BlankLine>>, <<LineBa>> >>,
           << <<BlankLine, GarbageLine, LineAb>>, <<GarbageLine, BlankLine>>, <<LineBa>> >>,
           << <<LineAb, NullLine, LineBa>> >>,
           << <<LineBa>>, <<NullLine>>, <<LineAb>> >>,
           PageAndOneStore }

Stores == GeneratedStores \cup HandStores

\* What memory_search is called with: query (non-empty), top_k (0 stands for
\* an absent top_k; the schema admits 1..50), filter_tags
Queries ==
    { <<"A", "B">>, <<"a">>, <<"\"", "a", "\"">>, <<"a", " ", "b">>, <<"n">> }
TopKValues == {0, 1, 2}
FilterValues == {Undefined, Arr(<<>>), Arr(<<"a">>), Arr(<<"a", "b">>)}

----------------------------------------------------------------------------
(* Linear memory search: naiveVectorStoreSearch *)

\* MaxResults with topK ignored.
MaxResultsIgnoringTopK(topK) == DefaultTopK

\* `const maxResults = topK || 10`
MaxResults(topK) == IF topK = 0 THEN DefaultTopK ELSE topK

\* `filterTags && filterTags.length > 0 ? filterTags : null`, null given as <<>>
RequiredTags(filterTags) ==
    IF Truthy(filterTags) /\ Len(filterTags.a) > 0 THEN filterTags.a ELSE <<>>

\* `Array.isArray(doc.tags) ? doc.tags : []`
TagsOf(doc) == IF doc.tags.k = "array" THEN doc.tags.a ELSE <<>>

\* HasAllTags with `some` in place of `every`.
HasSomeTag(required, tags) ==
    \E i \in 1..Len(required) : \E j \in 1..Len(tags) : tags[j] = required[i]

\* `requiredTags.every((t) => tags.includes(t))`
HasAllTags(required, tags) ==
    \A i \in 1..Len(required) : \E j \in 1..Len(tags) : tags[j] = required[i]

\* Haystack without the comment field.
HaystackWithoutComment(doc) ==
    toLowerCase(OrEmpty(doc.text) \o <<" ">> \o OrEmpty(doc.title) \o <<" ">>
                \o StringifyTags(TagsOf(doc)) \o <<" ">> \o OrEmpty(doc.kind)
                \o <<" ">> \o OrEmpty(doc.type))

\* the lowercased haystack of a record
Haystack(doc) ==
    toLowerCase(OrEmpty(doc.text) \o <<" ">> \o OrEmpty(doc.title) \o <<" ">>
                \o OrEmpty(doc.comment) \o <<" ">> \o StringifyTags(TagsOf(doc))
                \o <<" ">> \o OrEmpty(doc.kind) \o <<" ">> \o OrEmpty(doc.type))

\* the entry pushed for a matching line
ResultOf(line) ==
    [text |-> OrElse(line.doc.text, OrElse(line.doc.title, Str(<<line.src>>))),
     kind |-> OrElse(line.doc.kind, OrElse(line.doc.type, Str(<<"unknown">>))),
     tags |-> TagsOf(line.doc),
     created_at |-> OrElse(line.doc.created_at, OrElse(line.doc.marked_at, Null)),
     score |-> 1]

\* `text.split("\n").filter((line) => line.trim().length > 0)`, with the index
\* each kept line has in the file
NonBlankIndexes(fileLines) ==
    SelectSeq([i \in 1..Len(fileLines) |-> i], LAMBDA i : fileLines[i].form # "blank")

\* ParseLine without the try/catch: the SyntaxError of JSON.parse leaves the
\* function.
ParseLineUncaught(line) == IF line.form = "garbage" THEN "thrown" ELSE "doc"

\* `try { doc = JSON.parse(line) } catch { continue }`: a line that is not
\* JSON sends the loop to its next line, any other line gives its value.
ParseLine(line) == IF line.form = "garbage" THEN "continue" ELSE "doc"

\* LimitReached with the test left out.
LimitNeverReached(results, topK) == FALSE

\* `if (results.length >= maxResults) break;` at the head of both loops
LimitReached(results, topK) == Len(results) >= MaxResults(topK)

RECURSIVE ScanLines(_, _, _, _, _, _)
\* The line loop over one file's non-blank lines, from the n-th of them on.
\* acc = [results, kept, parsed, thrown].  An exception leaves the loop: the
\* TypeError of `doc.tags` when the line is the JSON literal null.
ScanLines(fileLines, idxs, n, f, acc, args) ==
    IF n > Len(idxs) THEN acc
    ELSE IF LimitReached(acc.results, args.topK) THEN acc
    ELSE LET line == fileLines[idxs[n]]
             required == RequiredTags(args.filterTags)
             seen == [acc EXCEPT !.parsed = Append(@, <<f, idxs[n]>>)]
         IN IF ParseLine(line) = "continue"
              THEN ScanLines(fileLines, idxs, n + 1, f, seen, args)
            ELSE IF ParseLine(line) = "thrown" \/ line.form = "null"
              THEN [seen EXCEPT !.thrown = TRUE]
            ELSE IF required # <<>> /\ ~HasAllTags(required, TagsOf(line.doc))
              THEN ScanLines(fileLines, idxs, n + 1, f, seen, args)
            ELSE IF ~includes(Haystack(line.doc), toLowerCase(args.query))
              THEN ScanLines(fileLines, idxs, n + 1, f, seen, args)
            ELSE ScanLines(fileLines, idxs, n + 1, f,
                           [seen EXCEPT !.results = Append(@, ResultOf(line)),
                                        !.kept = Append(@, <<f, idxs[n]>>)],
                           args)

Take(seq, n) == SubSeq(seq, 1, IF Len(seq) < n THEN Len(seq) ELSE n)

ListRequest == [kind |-> "list", file |-> 0, limit |-> ListPageSize]
ContentRequest(file) == [kind |-> "content", file |-> file, limit |-> 0]

\* ListFirstPage with the limit ignored.
ListEveryFile(store, limit) == [i \in 1..Len(store) |-> i]

\* What the vendor answers to the listing request: the ids of the first
\* `limit` files attached to the store.
ListFirstPage(store, limit) == Take([i \in 1..Len(store) |-> i], limit)

\* The head of the file loop for the file at index i of `files`: leave the
\* loop and return `results.slice(0, maxResults)`, or issue the content request.
FileLoopHead(i, files, results, kept) ==
    IF i > Len(files) \/ LimitReached(results, sArgs.topK)
      THEN /\ sPc' = "returned"
           /\ sResults' = Take(results, MaxResults(sArgs.topK))
           /\ sKept' = Take(kept, MaxResults(sArgs.topK))
           /\ sIdx' = i
           /\ sRequests' = sRequests
      ELSE /\ sPc' = "fetching"
           /\ sResults' = results
           /\ sKept' = kept
           /\ sIdx' = i
           /\ sRequests' = Append(sRequests, ContentRequest(files[i]))

\* content requests so far that answered a non-success status
SkippedFiles(fetched) == Cardinality({ i \in 1..Len(fetched) : fetched[i] = "status" })

\* memory_search calls naiveVectorStoreSearch, which issues the listing request.
SearchStart ==
    /\ sPc = "idle"
    /\ \E q \in Queries, top_k \in TopKValues, filter_tags \in FilterValues :
         sArgs' = [query |-> q,
                   topK |-> IF top_k = 0 THEN DefaultTopK ELSE top_k,
                   filterTags |-> OrElse(filter_tags, Null)]
    /\ sPc' = "listing"
    /\ sRequests' = <<ListRequest>>
    /\ UNCHANGED <<sStore, sFiles, sIdx, sFetched, sResults, sKept, sParsed, sError>>
    /\ UNCHANGED <<backendVars, toolVars, codecVars, ups, agent>>

\* The listing request settles: the first page of the store's files, a
\* non-success status, or a network failure.
ListDone ==
    /\ sPc = "listing"
    /\ \E outcome \in {"ok", "status", "network"} :
         IF outcome = "ok"
           THEN /\ sFiles' = ListFirstPage(sStore, sRequests[1].limit)
                /\ sError' = "none"
                /\ FileLoopHead(1, sFiles', <<>>, <<>>)
           ELSE /\ sPc' = "thrown"
                /\ sError' = IF outcome = "status" THEN "listStatus" ELSE "listNetwork"
                /\ UNCHANGED <<sFiles, sIdx, sRequests, sResults, sKept>>
    /\ UNCHANGED <<sStore, sArgs, sFetched, sParsed>>
    /\ UNCHANGED <<backendVars, toolVars, codecVars, ups, agent>>

\* The content request of files[sIdx] settles: the file's text, a non-success
\* status (the file is skipped), or a network failure (the rejected fetch is
\* not caught).  With the text, the line loop runs, then the file loop goes on.
FetchDone ==
    /\ sPc = "fetching"
    /\ \E outcome \in {"ok", "status", "network"} :
         /\ outcome = "status" => SkippedFiles(sFetched) < MaxSkippedFiles
         /\ sFetched' = Append(sFetched, outcome)
         /\ UNCHANGED <<sFiles, sArgs>>
         /\ IF outcome = "network"
              THEN /\ sPc' = "thrown" /\ sError' = "fetchNetwork"
                   /\ UNCHANGED <<sIdx, sRequests, sResults, sKept, sParsed>>
            ELSE IF outcome = "status"
              THEN /\ sError' = "none"
                   /\ sParsed' = sParsed
                   /\ FileLoopHead(sIdx + 1, sFiles, sResults, sKept)
            ELSE LET fileLines == sStore[sFiles[sIdx]]
                     acc == ScanLines(fileLines, NonBlankIndexes(fileLines), 1, sIdx,
                                      [results |-> sResults, kept |-> sKept,
                                       parsed |-> sParsed, thrown |-> FALSE], sArgs)
                 IN /\ sParsed' = acc.parsed
                    /\ IF acc.thrown
                         THEN /\ sPc' = "thrown" /\ sError' = "TypeError"
                              /\ sResults' = acc.results /\ sKept' = acc.kept
                              /\ UNCHANGED <<sIdx, sRequests>>
                         ELSE /\ sError' = "none"
                              /\ FileLoopHead(sIdx + 1, sFiles, acc.results, acc.kept)
    /\ UNCHANGED sStore
    /\ UNCHANGED <<backendVars, toolVars, codecVars, ups, agent>>

InitSearch ==
    /\ traktClientId = TRUE
    /\ traktAccessToken = TRUE
    /\ InitBackendIdle
    /\ sStore \in Stores
    /\ InitSearchIdle
    /\ InitToolIdle
    /\ InitCodecIdle
    /\ InitUploadsIdle
    /\ InitAgentIdle

NextSearch ==
    \/ SearchStart
    \/ ListDone
    \/ FetchDone

SpecSearch == InitSearch /\ [][NextSearch]_vars

----------------------------------------------------------------------------
(* MCP tool trakt_request *)

\* What the tool is called with, as its input schema admits it: a method of
\* the enum, a non-empty path, an optional query record (a sequence of
\* <<key, value>>), an optional body.
ToolMethods == {"GET", "POST", "PUT", "DELETE"}
ToolPaths == { <<"/">>, <<"/", "sync", "/", "history">>, <<"sync", "/", "history">>,
               <<"h", "t", "t", "p", ":", "/", "/", "evil">> }
ToolQueries == { <<>>, << <<"type", "movies">> >>,
                 << <<"q", "a b">>, <<"limit", "5">> >> }
ToolBodies == {Undefined, Str(<<"{movies:[]}">>)}

\* `path.startsWith("/")`
StartsWithSlash(path) == Len(path) > 0 /\ path[1] = "/"

\* encodeURIComponent on the keys and values the model sends: a space becomes
\* %20, letters and digits stay.
encodeURIComponent(str) == IF str = "a b" THEN "a%20b" ELSE str

RECURSIVE QueryPairs(_, _)
\* `Object.entries(query).map(([k, v]) => k=v).join("&")` from entry i on
QueryPairs(query, i) ==
    IF i > Len(query) THEN <<>>
    ELSE (IF i > 1 THEN <<"&">> ELSE <<>>)
         \o <<encodeURIComponent(query[i][1]), "=", encodeURIComponent(query[i][2])>>
         \o QueryPairs(query, i + 1)

\* `qs`: empty without query entries, else "?" and the pairs
QueryString(query) == IF Len(query) > 0 THEN <<"?">> \o QueryPairs(query, 1) ELSE <<>>

\* the request the tool sends: url, method, and the body unless the method is GET
ToolRequest(args) ==
    [url |-> <<"https://api.trakt.tv">> \o args.path \o QueryString(args.query),
     method |-> args.method,
     body |-> IF Truthy(args.body) /\ args.method # "GET" THEN args.body ELSE Undefined]

\* TraktRequestRejects without the test of the path.
TraktRequestRejectsCredentialsOnly(path) ==
    IF ~traktClientId \/ ~traktAccessToken THEN "Trakt no esta configurado en el servidor"
    ELSE "none"

\* The two checks at the head of the handler, in their order: the error the
\* handler throws, or "none".
TraktRequestRejects(path) ==
    IF ~traktClientId \/ ~traktAccessToken THEN "Trakt no esta configurado en el servidor"
    ELSE IF ~StartsWithSlash(path) THEN "El path de Trakt debe empezar por '/'"
    ELSE "none"

\* What the Trakt API can answer to the tool: a network failure, or a status
\* with a body that is JSON, empty, or text that is not JSON.
ToolFetchOutcomes ==
    { [net |-> TRUE, status |-> 0, text |-> ""] }
    \cup { [net |-> FALSE, status |-> st, text |-> t] :
             st \in {200, 404}, t \in {"json", "", "not json"} }

\* `text ? JSON.parse(text) : null`, the text itself when it does not parse
ToolData(text) == IF text = "" THEN "null" ELSE IF text = "json" THEN "parsed" ELSE text

\* trakt_request up to its await: the checks, then the outbound request.
TraktRequestCall ==
    /\ tPc = "idle"
    /\ \E method \in ToolMethods, path \in ToolPaths, query \in ToolQueries,
          body \in ToolBodies :
         LET args == [method |-> method, path |-> path, query |-> query, body |-> body]
             err == TraktRequestRejects(path)
         IN /\ tArgs' = args
            /\ IF err # "none"
                 THEN /\ tPc' = "thrown"
                      /\ tOut' = [NoToolOut EXCEPT !.kind = "thrown", !.error = err]
                      /\ tRequest' = tRequest
                 ELSE /\ tPc' = "fetching"
                      /\ tOut' = NoToolOut
                      /\ tRequest' = Append(tRequest, ToolRequest(args))
    /\ UNCHANGED <<traktClientId, traktAccessToken, backendVars, searchVars, codecVars,
                   ups, agent>>

\* `await fetch(url, options)` and `await resp.text()` settle.
TraktRequestFetchDone ==
    /\ tPc = "fetching"
    /\ \E r \in ToolFetchOutcomes :
         IF r.net
           THEN /\ tPc' = "thrown"
                /\ tOut' = [NoToolOut EXCEPT !.kind = "thrown", !.error = "fetch failed"]
           ELSE /\ tPc' = "returned"
                /\ tOut' = [NoToolOut EXCEPT !.kind = "returned", !.status = r.status,
                                             !.ok = (r.status = 200),
                                             !.data = ToolData(r.text)]
    /\ UNCHANGED <<tArgs, tRequest>>
    /\ UNCHANGED <<traktClientId, traktAccessToken, backendVars, searchVars, codecVars,
                   ups, agent>>

InitTool ==
    /\ traktClientId \in BOOLEAN
    /\ traktAccessToken \in BOOLEAN
    /\ InitBackendIdle
    /\ sStore = <<>>
    /\ InitSearchIdle
    /\ InitToolIdle
    /\ InitCodecIdle
    /\ InitUploadsIdle
    /\ InitAgentIdle

NextTool ==
    \/ TraktRequestCall
    \/ TraktRequestFetchDone

SpecTool == InitTool /\ [][NextTool]_vars

----------------------------------------------------------------------------
(* Document codec: buildMovieDocument, and JSON.parse of the line it makes *)

\* The keys of the object buildMovieDocument stringifies, in their order
CodecFields ==
    <<"type", "title", "year", "trakt_id", "imdb", "slug", "tmdb", "rating", "liked",
      "state", "source", "marked_at", "tags", "comment">>

\* Keys a reader of the parsed line may ask for: the codec's, and one more
DecodedKeys == { CodecFields[i] : i \in 1..Len(CodecFields) } \cup {"extra"}

RECURSIVE EscapeChars(_, _)
\* JSON.stringify of a string's characters from index i on: the double quote,
\* the backslash and the newline are escaped
EscapeChars(chars, i) ==
    IF i > Len(chars) THEN <<>>
    ELSE (IF chars[i] = "\"" THEN <<"\\", "\"">>
          ELSE IF chars[i] = "\\" THEN <<"\\", "\\">>
          ELSE IF chars[i] = "\n" THEN <<"\\", "n">>
          ELSE <<chars[i]>>) \o EscapeChars(chars, i + 1)

RECURSIVE UnescapeChars(_, _)
\* JSON.parse of the inside of a string literal from index i on
UnescapeChars(text, i) ==
    IF i > Len(text) THEN <<>>
    ELSE IF text[i] = "\\" /\ i < Len(text)
      THEN <<IF text[i + 1] = "n" THEN "\n" ELSE text[i + 1]>> \o UnescapeChars(text, i + 2)
    ELSE <<text[i]>> \o UnescapeChars(text, i + 1)

\* JSON.stringify of a value that is not undefined
StringifyValue(v) ==
    CASE v.k = "null" -> <<"null">>
      [] v.k = "boolean" -> v.a
      [] v.k = "number" -> IF v.a[1] \in {"NaN", "Infinity"} THEN <<"null">> ELSE v.a
      [] v.k = "string" -> <<"\"">> \o EscapeChars(v.a, 1) \o <<"\"">>
      [] OTHER -> StringifyTags(v.a)

\* JSON.parse of the text of one value
ParseValue(text) ==
    IF text = <<"null">> THEN Null
    ELSE IF text \in {<<"true">>, <<"false">>} THEN Bool(text = <<"true">>)
    ELSE IF text[1] = "\"" THEN Str(UnescapeChars(SubSeq(text, 2, Len(text) - 1), 1))
    ELSE IF text[1] = "[" THEN Arr([j \in 1..((Len(text) - 1) \div 4) |-> text[4 * j - 1]])
    ELSE Num(text[1])

\* JSON.stringify of an object: its members in key order, a key whose value is
\* undefined left out
StringifyObject(obj) ==
    LET present == SelectSeq(CodecFields, LAMBDA f : obj[f].k # "undefined")
    IN [i \in 1..Len(present) |->
          [key |-> present[i], text |-> StringifyValue(obj[present[i]])]]

\* JSON.parse of a line: the value of each key, undefined for a key the line
\* does not hold
ParseObject(members) ==
    [f \in DecodedKeys |->
       IF \E i \in 1..Len(members) : members[i].key = f
         THEN ParseValue(members[CHOOSE i \in 1..Len(members) : members[i].key = f].text)
         ELSE Undefined]

ClockDigits == <<"0", "1", "2", "3", "4", "5", "6", "7", "8", "9">>

\* Date.prototype.toISOString of instant t
toISOString(t) ==
    <<"2", "0", "2", "5", "-", "0", "1", "-", "0", "1", "T", "0", "0", ":", "0", "0", ":",
      "0", ClockDigits[t + 1], ".", "0", "0", "0", "Z">>

\* the instant an ISO-8601 text names, -1 when the text is none
DateParse(chars) ==
    IF \E t \in 0..9 : toISOString(t) = chars
      THEN CHOOSE t \in 0..9 : toISOString(t) = chars
      ELSE 0 - 1

\* buildMovieDocument(movie) called while the clock reads `now`: the object
\* with `marked_at: now`, stringified, and the newline appended
buildMovieDocumentAt(movie, now) ==
    StringifyObject([buildMovieDocument(movie) EXCEPT !.marked_at = Str(toISOString(now))])
    \o << [key |-> "\n", text |-> <<>>] >>

\* `text.split("\n")` on one line, then JSON.parse
ParseLineOfDocument(line) == ParseObject(SelectSeq(line, LAMBDA m : m.key # "\n"))

\* Facts a caller hands to buildMovieDocument: any string as type, an optional
\* title, year, rating, liked, state, tags; some callers also hand over a
\* marked_at of their own and a field the codec does not know
Facts ==
    { [NoFact EXCEPT !.type = ty, !.title = ti, !.year = y, !.rating = r, !.liked = l,
                     !.state = st, !.tags = tg, !.marked_at = m, !.extra = e] :
        ty \in {Undefined, Str(<<>>), Str(<<"n", "o", "t", "e">>)},
        ti \in {Undefined, Str(<<"D", "\"", "u", "\\", "n", "\n", "e">>)},
        y \in {Undefined, Null, Num("1999")},
        r \in {Undefined, Num("0")},
        l \in {Undefined, Bool(FALSE)},
        st \in {Undefined, Str(<<>>)},
        tg \in {Undefined, Arr(<<"a", "b">>)},
        m \in {Undefined, Str(toISOString(9))},
        e \in {Undefined, Str(<<"x">>)} }

CodecOthersUnchanged ==
    UNCHANGED <<traktClientId, traktAccessToken, backendVars, searchVars, toolVars, ups,
                agent>>

\* the wall clock advances
Tick ==
    /\ clock < MaxClock
    /\ clock' = clock + 1
    /\ UNCHANGED codec
    /\ CodecOthersUnchanged

\* a caller calls buildMovieDocument(fact)
BuildCall ==
    /\ codec.pc = "idle"
    /\ \E fact \in Facts :
         codec' = [codec EXCEPT !.pc = "called", !.fact = fact, !.start = clock]
    /\ UNCHANGED clock
    /\ CodecOthersUnchanged

\* `const now = new Date().toISOString()`
BuildStamp ==
    /\ codec.pc = "called"
    /\ codec' = [codec EXCEPT !.pc = "stamped", !.now = clock]
    /\ UNCHANGED clock
    /\ CodecOthersUnchanged

\* `return JSON.stringify({...}) + "\n"`
BuildReturn ==
    /\ codec.pc = "stamped"
    /\ codec' = [codec EXCEPT !.pc = "returned", !.end = clock,
                              !.line = buildMovieDocumentAt(codec.fact, codec.now)]
    /\ UNCHANGED clock
    /\ CodecOthersUnchanged

\* a reader parses the line
ParseBack ==
    /\ codec.pc = "returned"
    /\ codec' = [codec EXCEPT !.pc = "parsed", !.doc = ParseLineOfDocument(codec.line)]
    /\ UNCHANGED clock
    /\ CodecOthersUnchanged

InitCodec ==
    /\ traktClientId = TRUE
    /\ traktAccessToken = TRUE
    /\ InitBackendIdle
    /\ sStore = <<>>
    /\ InitSearchIdle
    /\ InitToolIdle
    /\ InitCodecIdle
    /\ InitUploadsIdle
    /\ InitAgentIdle

NextCodec ==
    \/ Tick
    \/ BuildCall
    \/ BuildStamp
    \/ BuildReturn
    \/ ParseBack

SpecCodec == InitCodec /\ [][NextCodec]_vars

----------------------------------------------------------------------------
(* Concurrent calls of uploadTextToVectorStore *)

\* What Date.now() and Math.random().toString(36).slice(2) can give to calls
\* that run at the same time: the same millisecond or the next, and any
\* suffix
Instants == {1, 2}
RandomSuffixes == {"k3f", "9zq"}

\* `path.join(tmpDir, "yen-movie-" + Date.now() + "-" + random + ".txt")`
TmpPath(now, rnd) == <<"/tmp/yen-movie-", now, "-", rnd, ".txt">>

\* the text call i is given
TextOfCall(i) == <<"text", i>>

\* the filesystem after `unlink(path)` succeeded
Removed(files, path) == [q \in DOMAIN files \ {path} |-> files[q]]

ConcurrentOthersUnchanged ==
    UNCHANGED <<traktClientId, traktAccessToken, reqNo, pc, req, up, unlinkPending,
                traktLog, calls, traktResp, locals, resp, searchVars, toolVars,
                codecVars, agent>>

\* Call i starts: it names its temp file and issues writeFile.
UploadStart(i) ==
    /\ ups[i].pc = "idle"
    /\ \E now \in Instants, rnd \in RandomSuffixes :
         ups' = [ups EXCEPT ![i] = [@ EXCEPT !.pc = "writeFile",
                                              !.tmpPath = TmpPath(now, rnd),
                                              !.text = TextOfCall(i)]]
    /\ UNCHANGED <<fs, vendorFiles, collection>>
    /\ ConcurrentOthersUnchanged

\* writeFile of call i settles: the file holds the call's text, whatever it
\* held before; or the write failed and the call throws.
UploadWriteFileDone(i) ==
    /\ ups[i].pc = "writeFile"
    /\ \E ok \in BOOLEAN :
         IF ok
           THEN /\ fs' = [p \in DOMAIN fs \cup {ups[i].tmpPath} |->
                            IF p = ups[i].tmpPath THEN ups[i].text ELSE fs[p]]
                /\ ups' = [ups EXCEPT ![i].pc = "filesCreate"]
           ELSE /\ fs' = fs
                /\ ups' = [ups EXCEPT ![i].pc = "settled", ![i].outcome = "thrown"]
    /\ UNCHANGED <<vendorFiles, collection>>
    /\ ConcurrentOthersUnchanged

\* openai.files.create of call i settles: the vendor stored what the stream
\* read at tmpPath; it fails when the file is gone, and may fail otherwise.
UploadFilesCreateDone(i) ==
    /\ ups[i].pc = "filesCreate"
    /\ \E ok \in BOOLEAN :
         IF ok /\ ups[i].tmpPath \in DOMAIN fs
           THEN /\ vendorFiles' = [f \in DOMAIN vendorFiles \cup {i} |->
                                     IF f = i THEN fs[ups[i].tmpPath] ELSE vendorFiles[f]]
                /\ ups' = [ups EXCEPT ![i].pc = "attach", ![i].fileId = i]
           ELSE /\ vendorFiles' = vendorFiles
                /\ ups' = [ups EXCEPT ![i].pc = "settled", ![i].outcome = "thrown",
                                      ![i].unlink = "pending"]
    /\ UNCHANGED <<fs, collection>>
    /\ ConcurrentOthersUnchanged

\* the attach request of call i settles; the call returns {fileId} or throws,
\* and its finally block issues the unlink.
UploadAttachDone(i) ==
    /\ ups[i].pc = "attach"
    /\ \E ok \in BOOLEAN :
         /\ collection' = IF ok THEN collection \cup {ups[i].fileId} ELSE collection
         /\ ups' = [ups EXCEPT ![i].pc = "settled",
                               ![i].outcome = IF ok THEN "returned" ELSE "thrown",
                               ![i].unlink = "pending"]
    /\ UNCHANGED <<fs, vendorFiles>>
    /\ ConcurrentOthersUnchanged

\* the unlink call i issued completes; its failure is swallowed.
UploadUnlinkDone(i) ==
    /\ ups[i].unlink = "pending"
    /\ \E ok \in BOOLEAN :
         fs' = IF ok /\ ups[i].tmpPath \in DOMAIN fs
                 THEN Removed(fs, ups[i].tmpPath) ELSE fs
    /\ ups' = [ups EXCEPT ![i].unlink = "done"]
    /\ UNCHANGED <<vendorFiles, collection>>
    /\ ConcurrentOthersUnchanged

InitConcurrent ==
    /\ traktClientId = TRUE
    /\ traktAccessToken = TRUE
    /\ InitBackendIdle
    /\ sStore = <<>>
    /\ InitSearchIdle
    /\ InitToolIdle
    /\ InitCodecIdle
    /\ InitUploadsIdle
    /\ InitAgentIdle

NextConcurrent ==
    \E i \in 1..MaxUploads :
      \/ UploadStart(i)
      \/ UploadWriteFileDone(i)
      \/ UploadFilesCreateDone(i)
      \/ UploadAttachDone(i)
      \/ UploadUnlinkDone(i)

SpecConcurrent == InitConcurrent /\ [][NextConcurrent]_vars

----------------------------------------------------------------------------
(* The agent's tools (yen-agent.mjs) and the routes of the server *)

\* The request a tool's execute() hands to fetch: method, path after
\* YEN_BACKEND_URL, and what the JSON body is made of (<<>>: no body).
BackendRequest(method, path, body) == [method |-> method, path |-> path, body |-> body]

\* execute() threw before any fetch
ToolThrows == BackendRequest("throw", "", <<>>)

\* yen_backend: path and method come from the call, the body is sent only
\* with POST and when it is not null.
YenBackendPaths ==
    {"/mark-seen", "/import-trakt-history", "/trakt/watchlist/add",
     "/trakt/watchlist/remove"}
YenBackendMethods == {"GET", "POST"}
yenBackendTool(path, method, body) ==
    BackendRequest(method, path, IF method = "POST" /\ body # "null" THEN <<body>> ELSE <<>>)

\* yen_mark_seen, yen_import_trakt_history, yen_watchlist_add and
\* yen_watchlist_remove: a POST of the arguments to a fixed path.
markSeenTool == BackendRequest("POST", "/mark-seen", <<"args">>)
importTraktHistoryTool == BackendRequest("POST", "/import-trakt-history", <<"limit">>)
watchlistAddTool == BackendRequest("POST", "/trakt/watchlist/add", <<"args">>)
watchlistRemoveTool == BackendRequest("POST", "/trakt/watchlist/remove", <<"args">>)

\* yen_trakt: the Trakt method and path travel in the body of a POST to the
\* backend's /trakt/proxy.
TraktToolMethods == {"GET", "POST", "PUT", "DELETE"}
TraktToolPaths == {"/sync/history", "/sync/history/remove"}
traktTool(method, path) == BackendRequest("POST", "/trakt/proxy", <<method, path>>)

\* yen_memory: write needs a truthy payloadJson, delete a truthy fileId, else
\* execute() throws; each operation posts to its own path.
memoryTool(operation, payloadJson, fileId) ==
    IF operation = "write"
      THEN IF payloadJson \in {"null", ""} THEN ToolThrows
           ELSE BackendRequest("POST", "/vector/write", <<payloadJson>>)
      ELSE IF fileId \in {"null", ""} THEN ToolThrows
           ELSE BackendRequest("POST", "/vector/delete-file", <<fileId>>)

\* Every call the tools' parameter schemas admit, with the request it makes
AgentCalls ==
    { [tool |-> "yen_backend", request |-> yenBackendTool(p, m, b)] :
        p \in YenBackendPaths, m \in YenBackendMethods, b \in {"null", "{}"} }
    \cup { [tool |-> "yen_mark_seen", request |-> markSeenTool],
           [tool |-> "yen_import_trakt_history", request |-> importTraktHistoryTool],
           [tool |-> "yen_watchlist_add", request |-> watchlistAddTool],
           [tool |-> "yen_watchlist_remove", request |-> watchlistRemoveTool] }
    \cup { [tool |-> "yen_trakt", request |-> traktTool(m, p)] :
             m \in TraktToolMethods, p \in TraktToolPaths }
    \cup { [tool |-> "yen_memory", request |-> memoryTool(op, payload, id)] :
             op \in {"write", "delete"}, payload \in {"null", "", "{}"},
             id \in {"null", "", "file-1"} }

\* `app.get(...)` and `app.post(...)` of the server: the routes it registers
RegisteredRoutes ==
    { <<"GET", "/">>, <<"POST", "/mark-seen">>, <<"POST", "/import-trakt-history">>,
      <<"POST", "/trakt/watchlist/add">>, <<"POST", "/trakt/watchlist/remove">>,
      <<"POST", "/agent/chat">> }

\* Express runs the handler registered for the request's method and path
RouteMatches(request) == <<request.method, request.path>> \in RegisteredRoutes

\* the statuses a handler can answer with
HandlerStatuses == {200, 400, 500}

AgentOthersUnchanged ==
    UNCHANGED <<traktClientId, traktAccessToken, backendVars, searchVars, toolVars,
                codecVars, ups>>

\* The agent calls a tool: execute() throws, or issues its fetch.
ToolExecute ==
    /\ agent.pc = "idle"
    /\ \E call \in AgentCalls :
         agent' = [NoAgent EXCEPT !.tool = call.tool, !.request = call.request,
                                  !.pc = IF call.request = ToolThrows THEN "thrown"
                                         ELSE "requested"]
    /\ AgentOthersUnchanged

\* The server receives the request: the matching handler answers, or no
\* route matches and Express answers 404.
ServerDispatch ==
    /\ agent.pc = "requested"
    /\ IF RouteMatches(agent.request)
         THEN \E status \in HandlerStatuses :
                agent' = [agent EXCEPT !.pc = "answered", !.routed = "handler",
                                       !.status = status]
         ELSE agent' = [agent EXCEPT !.pc = "answered", !.routed = "notFound",
                                     !.status = 404]
    /\ AgentOthersUnchanged

\* execute() returns {status, ok, data}; `res.ok` is a status of 200..299.
ToolReturn ==
    /\ agent.pc = "answered"
    /\ agent' = [agent EXCEPT !.pc = "returned", !.ok = (agent.status = 200)]
    /\ AgentOthersUnchanged

InitAgent ==
    /\ traktClientId = TRUE
    /\ traktAccessToken = TRUE
    /\ InitBackendIdle
    /\ sStore = <<>>
    /\ InitSearchIdle
    /\ InitToolIdle
    /\ InitCodecIdle
    /\ InitUploadsIdle
    /\ InitAgentIdle

NextAgent ==
    \/ ToolExecute
    \/ ServerDispatch
    \/ ToolReturn

SpecAgent == InitAgent /\ [][NextAgent]_vars

----------------------------------------------------------------------------
(* Claims about the upload and the routes, checked under Spec *)

UploadSettled == up.pc \in {"settled", "delivered"}
AttachAnswered == up.attachResp # NoAttachResp
RequestDone == pc = "done"
RecordStored ==
    /\ up.fileId \in DOMAIN vendorFiles
    /\ vendorFiles[up.fileId] = up.text
    /\ up.fileId \in collection

\* C1: once the result of an uploadTextToVectorStore call that wrote its temp
\* file has been delivered to the caller, returned or thrown (file creation
\* failed, attach answered a non-success status, network error), the temp
\* file is no longer on the local filesystem.
C1_TempFileGoneAtDelivery ==
    (up.pc = "delivered" /\ up.error.kind # "writeFile")
    => up.tmpPath \notin DOMAIN fs

\* C2: the upload returns {fileId} only if the file was created in vendor
\* storage and the attach call answered with a success status, it throws in
\* every other case, a non-success attach status is thrown with that status
\* and response body, and no step is issued twice.
C2_UploadAllOrNothing ==
    /\ calls.writeFile <= 1 /\ calls.filesCreate <= 1 /\ calls.attach <= 1
    /\ UploadSettled =>
         /\ up.outcome \in {"returned", "thrown"}
         /\ up.outcome = "returned" =>
              /\ up.fileId \in DOMAIN vendorFiles
              /\ AttachAnswered /\ ~up.attachResp.net /\ up.attachResp.ok
         /\ ~(up.fileId \in DOMAIN vendorFiles /\ AttachAnswered /\ up.attachResp.ok) =>
              up.outcome = "thrown"
         /\ (AttachAnswered /\ ~up.attachResp.net /\ ~up.attachResp.ok) =>
              /\ up.outcome = "thrown"
              /\ up.error.status = up.attachResp.status
              /\ up.error.body = up.attachResp.body

C2_Witness ==
    /\ UploadSettled /\ up.outcome = "thrown"
    /\ up.fileId \in DOMAIN vendorFiles
    /\ up.attachResp.status = 404 /\ up.error.body = "quota"

\* C3: in POST /mark-seen, when the upload succeeded and the Trakt
\* add-to-history call then failed, the response is ok:true with an error in
\* its trakt field, its status is not 500, and the record is still stored.
C3_MarkSeenSurvivesTraktFailure ==
    (/\ RequestDone /\ req.route = MarkSeenRoute
     /\ up.outcome = "returned" /\ traktResp \notin {"none", "ok"})
    => /\ resp.ok /\ resp.status = 200 /\ resp.trakt = "error"
       /\ RecordStored

C3_Witness ==
    /\ RequestDone /\ req.route = MarkSeenRoute
    /\ up.outcome = "returned" /\ traktResp = "status"
    /\ resp.ok /\ resp.trakt = "error"

\* C4: with a Trakt credential unset, every request that would mirror to
\* Trakt (mark-seen with syncTrakt, watchlist add, watchlist remove) and whose
\* storage upload did not fail completes successfully without a Trakt call.
C4_NoCredentialsSkipsTrakt ==
    (/\ RequestDone /\ (~traktClientId \/ ~traktAccessToken)
     /\ resp.status # 400
     /\ up.outcome # "thrown")
    => /\ resp.status = 200 /\ resp.ok
       /\ calls.trakt = 0

\* C5: POST /mark-seen with a missing, empty or non-string title answers 400
\* and issues no external call: no temp-file write, no file creation, no
\* attach, no unlink and no Trakt call.
C5_MarkSeenBadTitleNoCalls ==
    (/\ req.route = MarkSeenRoute
     /\ (req.title.k # "string" \/ req.title = Str(<<>>)))
    => /\ RequestDone /\ resp.status = 400
       /\ calls = NoCalls /\ up = NoUpload /\ traktResp = "none"

C5_Witness ==
    /\ RequestDone /\ req.route = MarkSeenRoute
    /\ req.title = Num("5") /\ HasAnyId(req.ids) /\ resp.status = 400

\* C6: POST /trakt/watchlist/add and /remove with none of trakt_id, imdb,
\* slug, tmdb present answer 400 and issue neither an upload nor a Trakt
\* call, whatever title and writeToVector are.
C6_WatchlistNoIdsNoSideEffect ==
    (/\ req.route \in {WatchlistAddRoute, WatchlistRemoveRoute}
     /\ \A f \in {"trakt_id", "imdb", "slug", "tmdb"} : req.ids[f] = Undefined)
    => /\ RequestDone /\ resp.status = 400
       /\ calls = NoCalls /\ up = NoUpload /\ traktResp = "none"

C6_Witness ==
    /\ RequestDone /\ req.route = WatchlistRemoveRoute
    /\ req.ids.trakt_id = Undefined /\ req.ids.imdb = Undefined
    /\ req.ids.slug = Undefined /\ req.ids.tmdb = Undefined
    /\ req.title = Str(<<"Dune">>) /\ req.writeToVector = Bool(TRUE)
    /\ resp.status = 400

\* C13: a /mark-seen request whose body carries syncTrakt: null (what the
\* yen_mark_seen tool sends for "default"), with a usable id and Trakt
\* configured, is handled as with syncTrakt omitted: once the upload has
\* returned the Trakt history call is made, and the record's source is the
\* one of a synced record.
C13_NullSyncTraktMeansTrue ==
    (/\ req.route = MarkSeenRoute /\ req.syncTrakt = Null
     /\ HasAnyId(req.ids) /\ traktClientId /\ traktAccessToken
     /\ up.pc = "delivered" /\ up.outcome = "returned")
    => /\ calls.trakt = 1
       /\ up.text[1].source = Str(<<"mark_seen_trakt+vector">>)

\* C14: a watchlist add/remove request whose body carries writeToVector: null
\* (what the yen_watchlist tools send for "default") with a non-empty title
\* and a usable id writes the memory record to the store, as with
\* writeToVector omitted.
C14_NullWriteToVectorMeansTrue ==
    (/\ req.route \in {WatchlistAddRoute, WatchlistRemoveRoute}
     /\ req.writeToVector = Null
     /\ req.title = Str(<<"Dune">>) /\ HasAnyId(req.ids)
     /\ traktClientId /\ traktAccessToken)
    => /\ calls.writeFile = 1
       /\ up.text = <<WatchlistDocument(req)>>

\* C22: memory and Trakt agree on watchlist changes: when a watchlist
\* add/remove request has completed, its memory record (state in_watchlist or
\* removed_from_watchlist) is in the store only if the Trakt watchlist call of
\* the same request succeeded, and a request answered 500 has left no new
\* memory record.
C22_WatchlistMemoryFollowsTrakt ==
    (/\ RequestDone /\ req.route \in {WatchlistAddRoute, WatchlistRemoveRoute}
     /\ traktClientId /\ traktAccessToken
     /\ up.outcome = "returned"
     /\ up.text = <<WatchlistDocument(req)>> /\ RecordStored)
    => /\ calls.trakt = 1 /\ traktResp = "ok"
       /\ resp.status # 500

\* C23: the `imported` count of a successful /import-trakt-history response
\* is the number of record lines of the blob that was uploaded, whatever
\* history Trakt returned, entries without a movie title included.
C23_ImportedCountsUploadedLines ==
    (/\ RequestDone /\ req.route = ImportHistoryRoute
     /\ resp.status = 200 /\ up.outcome = "returned")
    => resp.imported = Len(up.text)

\* C24: in /mark-seen the Trakt add-to-history call is issued only after the
\* upload has returned a fileId; when the upload fails the handler answers 500
\* and makes no Trakt call for that request, so Trakt is never updated for a
\* movie whose memory record was not stored.
C24_MarkSeenTraktOnlyAfterStored ==
    req.route = MarkSeenRoute =>
      /\ calls.trakt > 0 =>
           /\ up.pc = "delivered" /\ up.outcome = "returned"
           /\ up.fileId # 0 /\ RecordStored
      /\ pc = "trakt" => calls.trakt = 1
      /\ reqNo \in traktLog => (calls.trakt = 1 /\ RecordStored)
      /\ (RequestDone /\ up.outcome = "thrown") =>
           /\ resp.status = 500
           /\ calls.trakt = 0
           /\ reqNo \notin traktLog

\* a /mark-seen request that would have synced (flag on, usable id, Trakt
\* configured) whose upload failed after the file was written: answered 500
\* with no Trakt call
C24_Witness ==
    /\ RequestDone /\ req.route = MarkSeenRoute
    /\ MarkSeenShouldSync(req)
    /\ calls.writeFile = 1 /\ calls.filesCreate = 1
    /\ up.outcome = "thrown"
    /\ resp.status = 500 /\ calls.trakt = 0

\* C26: the provenance tag of a /mark-seen record is truthful: the record is
\* stored with source mark_seen_trakt+vector only if the Trakt history sync of
\* that request was attempted, and whenever the sync is skipped (no id
\* supplied, or Trakt not configured) the source is mark_seen_vector_only.
C26_MarkSeenSourceIsTruthful ==
    (/\ RequestDone /\ req.route = MarkSeenRoute
     /\ up.outcome = "returned" /\ RecordStored)
    => /\ up.text[1].source = Str(<<"mark_seen_trakt+vector">>) => calls.trakt = 1
       /\ calls.trakt = 0 => up.text[1].source = Str(<<"mark_seen_vector_only">>)

\* C19: deletion of the temp file is attempted on every exit path of
\* uploadTextToVectorStore: failure of the temp-file write, of file creation,
\* of attach, and success; the deletion's own failure never changes the
\* call's outcome.
C19_UnlinkOnEveryExit ==
    UploadSettled =>
      /\ calls.unlink = 1
      /\ up.outcome = "returned" <=> up.error = NoError

\* the request's input does not pass the handler's validation: no non-empty
\* string title (/mark-seen), no usable id (watchlist), no non-empty string
\* message (/agent/chat); /import-trakt-history validates nothing
ValidationFails ==
    CASE req.route = MarkSeenRoute -> ~(req.title.k = "string" /\ req.title.a # <<>>)
      [] req.route \in {WatchlistAddRoute, WatchlistRemoveRoute} ->
           \A f \in {"trakt_id", "imdb", "slug", "tmdb"} :
             req.ids[f] \in {Undefined, Null, Str(<<>>), Num("0")}
      [] req.route = AgentChatRoute -> ~(req.message.k = "string" /\ req.message.a # <<>>)
      [] OTHER -> FALSE

TraktCallFailed == traktResp \in {"okNotJson", "status", "network"}

\* something the request needed failed: the upload, the agent run, or, in
\* the routes whose purpose is the Trakt call, that call or its configuration
DependencyFailed ==
    \/ up.outcome = "thrown"
    \/ /\ req.route \in {WatchlistAddRoute, WatchlistRemoveRoute, ImportHistoryRoute}
       /\ (TraktCallFailed \/ ~traktClientId \/ ~traktAccessToken)
    \/ req.route = AgentChatRoute /\ locals.result = "thrown"

\* the Trakt history call of /mark-seen failed
MirrorFailed == req.route = MarkSeenRoute /\ TraktCallFailed

\* a step of a handler or of the upload it awaits
HandlerStep ==
    \/ WriteFileDone \/ FilesCreateDone \/ AttachDone
    \/ MarkSeenAfterUpload \/ WatchlistAfterUpload \/ ImportAfterUpload
    \/ TraktHistoryDone \/ TraktWatchlistDone \/ ImportAfterHistory \/ AgentChatDone

\* C16, as stated: every request gets exactly one response; its status is 400
\* exactly when validation fails, 500 for every other failure, external
\* dependencies included, and a success status otherwise.
C16_StatusByCategory ==
    RequestDone =>
      /\ resp.sent = 1
      /\ resp.status = 400 <=> ValidationFails
      /\ resp.status = 500 <=> (~ValidationFails /\ (DependencyFailed \/ MirrorFailed))
      /\ resp.status = 200 <=> (~ValidationFails /\ ~DependencyFailed /\ ~MirrorFailed)

\* C16, amended: every request gets exactly one response, none before its
\* awaited calls have settled and one as soon as they have; the status is 400
\* exactly when validation fails, 500 for every other failure except a failed
\* Trakt history call of /mark-seen, which is reported in the trakt field of a
\* 200 response, and 200 with ok:true otherwise.
C16_StatusByCategoryExceptMirror ==
    /\ pc \notin {"idle", "done"} => (resp.sent = 0 /\ ENABLED HandlerStep)
    /\ RequestDone =>
         /\ resp.sent = 1
         /\ resp.status \in {200, 400, 500}
         /\ resp.status = 400 <=> ValidationFails
         /\ resp.status = 500 <=> (~ValidationFails /\ DependencyFailed)
         /\ resp.status = 200 <=> resp.ok
         /\ (MirrorFailed /\ ~DependencyFailed) => resp.trakt = "error"

\* /import-trakt-history: the history was fetched, the upload failed: 500
C16_Witness ==
    /\ RequestDone /\ req.route = ImportHistoryRoute
    /\ traktResp = "ok" /\ up.outcome = "thrown" /\ up.error.kind = "attachStatus"
    /\ resp.status = 500 /\ resp.sent = 1

----------------------------------------------------------------------------
(* Claims about the search, checked under SpecSearch *)

SearchReturned == sPc = "returned"

\* <<f, l>>: line l of the f-th listed file
LineAt(pos) == sStore[sFiles[pos[1]]][pos[2]]
Before(p, q) == p[1] < q[1] \/ (p[1] = q[1] /\ p[2] < q[2])
KeptSet == { sKept[i] : i \in 1..Len(sKept) }

\* the lines of the listed files whose content request answered with the text
ReadablePositions ==
    UNION { { <<f, l>> : l \in 1..Len(sStore[sFiles[f]]) } :
            f \in { g \in 1..Len(sFetched) : sFetched[g] = "ok" } }

\* a line that parses as one JSON record
Parses(line) == line.form \in {"scalar", "object"}

\* every requested tag is among the record's tags
TagsAdmit(line, filterTags) ==
    \/ filterTags.k # "array"
    \/ filterTags.a = <<>>
    \/ /\ line.doc.tags.k = "array"
       /\ \A t \in { filterTags.a[i] : i \in 1..Len(filterTags.a) } :
            t \in { line.doc.tags.a[j] : j \in 1..Len(line.doc.tags.a) }

\* a field as text; a missing field is the empty string
FieldText(v) == IF v.k \in {"string", "number"} THEN v.a ELSE <<>>

\* text, title, comment, the stringified tags, kind and type, joined by single
\* spaces
JoinedFields(doc) ==
    LET tags == IF doc.tags.k = "array" THEN doc.tags.a ELSE <<>>
        sp == <<" ">>
    IN FieldText(doc.text) \o sp \o FieldText(doc.title) \o sp \o FieldText(doc.comment)
       \o sp \o StringifyTags(tags) \o sp \o FieldText(doc.kind) \o sp
       \o FieldText(doc.type)

\* query occurs in hay as a contiguous run of characters, letter case ignored
ContainsIgnoringCase(hay, query) ==
    \E off \in 0..(Len(hay) - Len(query)) :
      \A j \in 1..Len(query) : LowerChar(hay[off + j]) = LowerChar(query[j])

Matches(line) ==
    /\ Parses(line)
    /\ TagsAdmit(line, sArgs.filterTags)
    /\ ContainsIgnoringCase(JoinedFields(line.doc), sArgs.query)

MatchingReadable == { pos \in ReadablePositions : Matches(LineAt(pos)) }

Smaller(a, b) == IF a < b THEN a ELSE b

\* C7: a search that returns gives exactly the first min(topK, M) matching
\* records in file-listing-then-line order, M being the number of matching
\* lines of the listed files that could be read; never more than topK
\* entries, never reordered.
C7_FirstTopKInScanOrder ==
    SearchReturned =>
      /\ Len(sResults) = Smaller(sArgs.topK, Cardinality(MatchingReadable))
      /\ Len(sResults) < sArgs.topK => Len(sFetched) = Len(sFiles)
      /\ Len(sKept) = Len(sResults)
      /\ \A i \in 1..Len(sKept) :
           /\ sKept[i] \in MatchingReadable
           /\ sResults[i] = ResultOf(LineAt(sKept[i]))
           /\ sResults[i].score = 1
           /\ \A j \in 1..Len(sKept) : i < j => Before(sKept[i], sKept[j])
      /\ \A pos \in MatchingReadable \ KeptSet :
           \A i \in 1..Len(sKept) : Before(sKept[i], pos)

\* two files, topK = 2, three matching lines: the first line of each file is
\* returned and the third match is left out
C7_Witness ==
    /\ SearchReturned /\ sArgs.topK = 2
    /\ sKept = << <<1, 1>>, <<2, 1>> >>
    /\ Cardinality(MatchingReadable) = 3

\* C8: with a non-empty filterTags a record is kept only if its tags array
\* holds every requested tag (a missing or non-array tags field holds none);
\* with an empty or absent filterTags no record is excluded by its tags.
C8_TagFilterIsConjunctive ==
    SearchReturned =>
      /\ \A pos \in KeptSet : TagsAdmit(LineAt(pos), sArgs.filterTags)
      /\ Len(sResults) < sArgs.topK =>
           \A pos \in ReadablePositions :
             (/\ Parses(LineAt(pos))
              /\ ContainsIgnoringCase(JoinedFields(LineAt(pos).doc), sArgs.query))
             => (pos \in KeptSet <=> TagsAdmit(LineAt(pos), sArgs.filterTags))

\* filter [a, b]: the record tagged [a] is left out, the one tagged [a, b] kept
C8_Witness ==
    /\ SearchReturned /\ sArgs.filterTags = Arr(<<"a", "b">>)
    /\ sArgs.query = <<"a">>
    /\ sStore = << <<LineAb, LineBa>> >>
    /\ sKept = << <<1, 2>> >>

\* C9: a record that passes the tag filter is returned if and only if the
\* query occurs, letter case ignored, as a contiguous substring of text,
\* title, comment, the stringified tags, kind and type joined by spaces.
C9_SubstringMatchIgnoresCase ==
    SearchReturned =>
      /\ \A pos \in KeptSet :
           ContainsIgnoringCase(JoinedFields(LineAt(pos).doc), sArgs.query)
      /\ Len(sResults) < sArgs.topK =>
           \A pos \in ReadablePositions :
             (Parses(LineAt(pos)) /\ TagsAdmit(LineAt(pos), sArgs.filterTags))
             => (pos \in KeptSet <=>
                   ContainsIgnoringCase(JoinedFields(LineAt(pos).doc), sArgs.query))

\* the query "AB" finds the record titled "Ab" and not the one with text "ba"
C9_Witness ==
    /\ SearchReturned /\ sArgs.query = <<"A", "B">>
    /\ sStore = << <<LineBa>>, <<LineAb>> >>
    /\ sKept = << <<2, 1>> >>

\* C10: a failed content request (non-success status or network failure)
\* makes the search skip that file and go on: the search never aborts because
\* of it, and nothing of the failed file is returned.
C10_FetchFailureSkipsFile ==
    /\ sError # "fetchNetwork"
    /\ \A pos \in KeptSet : sFetched[pos[1]] = "ok"

\* C11: blank lines and non-blank lines that are not JSON are passed over
\* without an error: none of them gives a result, the search never throws
\* because of one, and the lines after it in the same file and the later
\* files are still scanned.
C11_UnparsableLinesSkipped ==
    /\ \A pos \in KeptSet : LineAt(pos).form \notin {"blank", "garbage"}
    /\ sError \in {"none", "listStatus", "listNetwork", "fetchNetwork", "TypeError"}
    /\ sError = "TypeError" =>
         \E l \in 1..Len(sStore[sFiles[sIdx]]) : sStore[sFiles[sIdx]][l].form = "null"
    /\ (SearchReturned /\ Len(sResults) < sArgs.topK) =>
         \A pos \in ReadablePositions, later \in MatchingReadable :
           (LineAt(pos).form \in {"blank", "garbage"} /\ Before(pos, later))
           => later \in KeptSet

\* a blank and a non-JSON line before a match in the first file, a second file
\* of nothing else, and a match in the third file
C11_Witness ==
    /\ SearchReturned /\ sArgs.query = <<"a">> /\ sArgs.filterTags = Null
    /\ sStore = << <<BlankLine, GarbageLine, LineAb>>, <<GarbageLine, BlankLine>>,
                   <<LineBa>> >>
    /\ sFetched = <<"ok", "ok", "ok">>
    /\ sKept = << <<1, 3>>, <<3, 1>> >>

\* the requests of the search after its first
ContentRequests == SubSeq(sRequests, 2, Len(sRequests))

\* C17: a search issues exactly one listing request, for a page of 20 files,
\* and then asks for the content of listed files only, each at most once and
\* in listing order; a record of a file beyond the first page is never
\* returned; when the listing request fails the search fails and no file is
\* fetched.
C17_OneListingPageThenListedFiles ==
    /\ sPc = "idle" => sRequests = <<>>
    /\ sPc # "idle" =>
         /\ sRequests[1] = [kind |-> "list", file |-> 0, limit |-> 20]
         /\ \A i \in 2..Len(sRequests) : sRequests[i].kind = "content"
    /\ Len(ContentRequests) <= Len(sFiles)
    /\ \A i \in 1..Len(ContentRequests) : ContentRequests[i].file = sFiles[i]
    /\ \A i, j \in 1..Len(sFiles) : i < j => sFiles[i] < sFiles[j]
    /\ \A i \in 1..Len(sFiles) : sFiles[i] \in 1..Len(sStore) /\ sFiles[i] <= 20
    /\ Len(sFiles) <= 20
    /\ \A pos \in KeptSet : sFiles[pos[1]] <= 20
    /\ \A i \in 1..Len(sResults) :
         \E f \in 1..Smaller(20, Len(sStore)) : \E l \in 1..Len(sStore[f]) :
           sResults[i] = ResultOf(sStore[f][l])
    /\ sError \in {"listStatus", "listNetwork"} =>
         /\ sPc = "thrown"
         /\ ContentRequests = <<>> /\ sFetched = <<>> /\ sResults = <<>>

\* 21 files, the only record matching "AB" in the 21st: all 20 listed files
\* are fetched, nothing is found
C17_Witness ==
    /\ SearchReturned /\ Len(sStore) = 21 /\ sArgs.query = <<"A", "B">>
    /\ sArgs.filterTags = Null
    /\ Len(sFiles) = 20 /\ Len(ContentRequests) = 20
    /\ \A i \in 1..20 : sFetched[i] = "ok"
    /\ sResults = <<>>
    /\ includes(Haystack(sStore[21][1].doc), toLowerCase(sArgs.query))

\* C18: scanning stops as soon as topK matches are collected: once the
\* topK-th match is recorded no further line is parsed and no further content
\* request is issued, in the line loop and in the file loop alike.
C18_StopsAtTopK ==
    /\ Len(sKept) <= sArgs.topK
    /\ Len(sKept) = sArgs.topK /\ sArgs.topK > 0 =>
         LET last == sKept[sArgs.topK] IN
         /\ sPc = "returned"
         /\ \A i \in 1..Len(sParsed) : ~Before(last, sParsed[i])
         /\ sParsed[Len(sParsed)] = last
         /\ Len(ContentRequests) = last[1]
         /\ Len(sFetched) = last[1]

\* topK = 1, two files, the first with two matching lines: the first line is
\* the only one parsed and the second file is never asked for
C18_Witness ==
    /\ SearchReturned /\ sArgs.topK = 1 /\ sArgs.query = <<"a">>
    /\ sArgs.filterTags = Null
    /\ sStore = << <<LineAb, LineBa>>, <<LineAb>> >>
    /\ sParsed = << <<1, 1>> >> /\ sKept = << <<1, 1>> >>
    /\ Len(ContentRequests) = 1

\* C21: a line that is valid JSON but not a record object (null, a number, a
\* string, an array) never makes the search fail: the line is skipped or gives
\* a result, the scan goes on to the lines after it, and no exception leaves
\* naiveVectorStoreSearch because of it.
C21_NonRecordLineNeverThrows ==
    \A i \in 1..Len(sParsed) :
      LineAt(sParsed[i]).form \in {"null", "scalar"} =>
        ~(sPc = "thrown" /\ sError = "TypeError" /\ i = Len(sParsed))

----------------------------------------------------------------------------
(* Claims about the MCP tools, checked under SpecTool *)

\* C12: trakt_request throws without any outbound request whenever a Trakt
\* credential is not configured or the path does not start with "/"; an
\* outbound request is issued only after both checks have passed.
C12_TraktRequestRejectsBeforeIO ==
    /\ Len(tRequest) > 0 =>
         /\ traktClientId /\ traktAccessToken
         /\ tArgs.path[1] = "/"
    /\ (tPc # "idle" /\ (~traktClientId \/ ~traktAccessToken \/ tArgs.path[1] # "/")) =>
         /\ tPc = "thrown" /\ tOut.kind = "thrown"
         /\ tOut.error # "fetch failed"
         /\ tRequest = <<>>

\* Trakt is configured and the path is an absolute URL: thrown, nothing sent
C12_Witness ==
    /\ traktClientId /\ traktAccessToken
    /\ tPc = "thrown" /\ tArgs.path[1] = "h" /\ tArgs.method = "POST"
    /\ tRequest = <<>>

----------------------------------------------------------------------------
(* Claims about the document codec, checked under SpecCodec *)

\* what a field is expected to come back as: the supplied value, or the
\* default of an absent field
CodecDefault(f) ==
    CASE f = "type" -> Str(<<"movie_seen">>)
      [] f = "title" -> Undefined
      [] f = "state" -> Str(<<"seen">>)
      [] f = "source" -> Str(<<"manual">>)
      [] f = "tags" -> Arr(<<>>)
      [] OTHER -> Null
Supplied(fact, f) == IF fact[f] = Undefined THEN CodecDefault(f) ELSE fact[f]

\* C15: parsing the line buildMovieDocument made of a fact recovers every
\* field with the value the caller supplied, an absent field as its default;
\* marked_at is the instant the codec read between the start and the end of
\* the call, never the caller's; a field outside the codec's set is dropped.
C15_CodecRoundTrip ==
    codec.pc = "parsed" =>
      /\ \A f \in DecodedKeys \ {"marked_at", "extra"} :
           codec.doc[f] = Supplied(codec.fact, f)
      /\ codec.doc.marked_at.k = "string"
      /\ DateParse(codec.doc.marked_at.a) >= codec.start
      /\ DateParse(codec.doc.marked_at.a) <= codec.end
      /\ codec.doc.extra = Undefined

----------------------------------------------------------------------------
(* Claims about concurrent uploads, checked under SpecConcurrent *)

Started == { i \in 1..MaxUploads : ups[i].pc # "idle" }
PathsDiffer == \A i, j \in Started : i # j => ups[i].tmpPath # ups[j].tmpPath

\* every call uploaded the text it was given, and the temp file of a call
\* that has written it and not yet uploaded it is in place
EachCallItsOwnText ==
    \A i \in Started :
      /\ ups[i].fileId # 0 =>
           /\ ups[i].fileId \in DOMAIN vendorFiles
           /\ vendorFiles[ups[i].fileId] = <<"text", i>>
      /\ ups[i].pc = "filesCreate" =>
           /\ ups[i].tmpPath \in DOMAIN fs
           /\ fs[ups[i].tmpPath] = <<"text", i>>
      /\ \A j \in Started : (i # j /\ ups[i].fileId # 0) => ups[i].fileId # ups[j].fileId

IsolatedWhenNamesDiffer ==
    PathsDiffer => EachCallItsOwnText

\* two calls in the same millisecond with different suffixes: the first has
\* returned and its cleanup has run while the second, written, waits for its
\* file creation
DistinctNamesReached ==
    /\ ups[1].tmpPath[2] = ups[2].tmpPath[2]
    /\ ups[1].tmpPath # ups[2].tmpPath
    /\ ups[1].outcome = "returned" /\ ups[1].unlink = "done"
    /\ ups[1].tmpPath \notin DOMAIN fs
    /\ ups[2].pc = "filesCreate"
    /\ ups[2].tmpPath \in DOMAIN fs

----------------------------------------------------------------------------
(* Claims about the agent's tools, checked under SpecAgent *)

\* C25: every backend request a tool of the agent can issue targets a route
\* the server registers with that method: yen_backend, yen_mark_seen,
\* yen_import_trakt_history, yen_watchlist_add, yen_watchlist_remove, yen_trakt
\* and yen_memory only reach paths and methods that have a handler.
C25_ToolRequestsHitRegisteredRoutes ==
    agent.pc \in {"requested", "answered", "returned"} =>
      /\ <<agent.request.method, agent.request.path>> \in RegisteredRoutes
      /\ agent.routed # "notFound"

\* The tools with a fixed route do reach a handler.
FixedRouteToolsReachHandlers ==
    (/\ agent.pc \in {"answered", "returned"}
     /\ agent.tool \in {"yen_mark_seen", "yen_import_trakt_history", "yen_watchlist_add",
                        "yen_watchlist_remove"})
    => agent.routed = "handler"

====
